---- MODULE Spec2Model ----
(***************************************************************************)
(* Post / tag / comment / like consistency layer of the blog backend.      *)
(*                                                                         *)
(* The relational store is modelled by its committed rows.  A handler is a *)
(* sequence of steps, one per awaited store call; handlers of different    *)
(* requests interleave between steps.  A store transaction stages its      *)
(* writes in the handler's locals (other requests do not see them), each   *)
(* statement reads the rows committed at that moment (read committed), and *)
(* the commit step validates the store's constraints against the rows      *)
(* committed by then and applies every staged write at once, or none.      *)
(***************************************************************************)
EXTENDS Integers, Sequences, FiniteSets, TLC

----------------------------------------------------------------------------
(* Bounds of the model *)

NumProcs == 2
NumUsers == 2
MaxPosts == 2
MaxComments == 3
MaxClock == 1
MaxForest == 4
MaxViews == 2
MaxAttempts == 3

Procs == 1 .. NumProcs
Users == 1 .. NumUsers
PostIds == 1 .. MaxPosts
CommentIds == 1 .. MaxComments

TagNames == {"x", "y"}

(* Tag lists a createPost request may carry (arrays of strings) *)
TagLists == {<<>>, <<"x">>, <<"y", "">>, <<"x", "y">>, <<"x", "x">>}

(* Tag lists an updatePost request may carry *)
NewTagLists == {<<>>, <<"x">>, <<"y">>, <<"x", "y">>, <<"x", "x">>}

(* Titles a request may carry: strings as sequences of characters *)
Titles == {<<>>, <<"a">>, <<"A", "!">>, <<" ", "b", " ", " ", "a">>}

NoParent == 0

(* The :postId of a comment route: a post id or a slug *)
PostParams ==
  {[kind |-> "id", id |-> i, slug |-> <<>>] : i \in PostIds} \cup
  {[kind |-> "slug", id |-> 0, slug |-> s] : s \in {<<"a">>, <<"c">>}}

VARIABLES
  posts,        \* BlogPost rows: id -> [title, slug, isDraft, views, likesCount]
  tags,         \* Tag rows: name -> number of rows with that name
  postTags,     \* PostTag rows: set of [id, post, tag]
  likes,        \* PostLike rows: <<userId, postId>> -> number of rows
  comments,     \* Comment rows: id -> [post, parent, createdAt]
  nextPost,     \* number of post ids handed out so far (ids are never reused)
  nextComment,  \* number of comment ids handed out so far
  now,          \* the clock (Date.now(), createdAt)
  users,        \* User rows: set of [email, n, password, role]
  jobs,         \* jobs submitted to the scheduler: set of [name, to]
  secret,       \* process.env.ADMIN_ACCESS_TOKEN
  pc,           \* per request slot: the handler's position
  arg,          \* per request slot: the request (operation and inputs)
  loc,          \* per request slot: the handler's locals and staged writes
  resp          \* per request slot: the last response sent

vars == <<posts, tags, postTags, likes, comments, nextPost, nextComment, now,
          users, jobs, secret, pc, arg, loc, resp>>

(* the identity store, the scheduler's queue and the configuration *)
identity == <<users, jobs, secret>>

store == <<posts, tags, postTags, likes, comments, nextPost, nextComment>>

----------------------------------------------------------------------------
(* Helpers over rows *)

Idle == [op |-> "idle"]
NoLoc == [none |-> TRUE]
NoResp == [code |-> 0, msg |-> "none", err |-> "none"]

Range(s) == {s[i] : i \in 1 .. Len(s)}

PostExists(id) == id \in DOMAIN posts

(* rows of a table (a function key -> count) whose count is positive *)
Rows(table) == {k \in DOMAIN table : table[k] > 0}

RECURSIVE SumOver(_, _)
SumOver(f, S) ==
  IF S = {} THEN 0
  ELSE LET k == CHOOSE x \in S : TRUE IN f[k] + SumOver(f, S \ {k})

(* count(Like where postId = p) *)
LikeCount(p) == SumOver(likes, {k \in DOMAIN likes : k[2] = p})

(* join rows of post p, the tag names joined to it, the number of join rows *)
JoinRows(p) == {r \in postTags : r.post = p}
TagsOf(p) == {r.tag : r \in JoinRows(p)}
JoinCount(p) == Cardinality(JoinRows(p))

LikeRowsOf(p) == [u \in Users |-> likes[<<u, p>>]]

CommentsOf(p) == {c \in DOMAIN comments : comments[c].post = p}

Respond(q, code, msg) ==
  /\ resp' = [resp EXCEPT ![q] = [code |-> code, msg |-> msg, err |-> "none"]]
  /\ pc' = [pc EXCEPT ![q] = "idle"]
  /\ arg' = [arg EXCEPT ![q] = Idle]
  /\ loc' = [loc EXCEPT ![q] = NoLoc]

Goto(q, label) == pc' = [pc EXCEPT ![q] = label]

(* a request comes in on slot q: its handler starts with these locals *)
Begin(q, request, locals, label) ==
  /\ pc[q] = "idle"
  /\ arg' = [arg EXCEPT ![q] = request]
  /\ loc' = [loc EXCEPT ![q] = locals]
  /\ resp' = [resp EXCEPT ![q] = NoResp]
  /\ pc' = [pc EXCEPT ![q] = label]

(* requests of an operation under way (ids are handed out up to the bound) *)
InFlight(op) == Cardinality({q \in Procs : arg[q].op = op})

----------------------------------------------------------------------------
(* Store constraints *)

(* faulty variant: no unique index on (userId, postId) *)
LikeUniqueAbsent(u, p) == TRUE

(* @@unique([userId, postId]) on PostLike: the insert of a second row fails *)
LikeUnique(u, p) == likes[<<u, p>>] = 0

(* Foreign keys to BlogPost restrict its deletion: rows that still refer to  *)
(* post p once the staged deletions are applied make the delete fail         *)
NoDependents(p, delJoins, delLikes, delComments) ==
  /\ JoinRows(p) \subseteq delJoins
  /\ \A u \in Users : likes[<<u, p>>] <= delLikes[u]
  /\ CommentsOf(p) \subseteq delComments

(* Comment.parent is optional: deleting the parent row sets parentId to NULL *)
OrphanChildren(rows, gone) ==
  [c \in DOMAIN rows \ gone |->
     IF rows[c].parent \in gone THEN [rows[c] EXCEPT !.parent = NoParent]
     ELSE rows[c]]

FailureMessage(op) ==
  CASE op = "likePost" -> "Failed to like post"
    [] op = "createPost" -> "Failed to create post"
    [] op = "updatePost" -> "Failed to update post"
    [] op = "deletePost" -> "Failed to delete post"
    [] op = "addComment" -> "Failed to add comment"
    [] op = "deleteComment" -> "Failed to delete comment"
    [] op \in {"registerUser", "loginUser"} -> "Server error"
    [] op = "incrementView" -> "Failed to increment view"
    [] op = "getAllPosts" -> "Failed to fetch posts"
    [] op = "updateProfile" -> "Failed to update profile"
    [] op = "getPostsByTag" -> "Failed to get posts by tag"
    [] OTHER -> "Failed to fetch comments by post"

(* the catch block of the handler that runs on slot q, for a thrown error    *)
(* of kind err: updatePost and deletePost answer P2025 (no such row) with    *)
(* 404; the post controller's handlePrismaError answers P1001 (store         *)
(* unreachable) with 503; everything else is 500 with the error's message    *)
Throw(q, err) ==
  LET op == arg[q].op
      code == IF op \in {"updatePost", "deletePost"} /\ err = "P2025" THEN 404
              ELSE IF op \in {"likePost", "createPost", "updatePost", "deletePost",
                             "getAllPosts", "getPostsByTag"}
                      /\ err = "P1001" THEN 503
              ELSE 500
  IN /\ resp' = [resp EXCEPT ![q] =
                   [code |-> code,
                    msg |-> IF code = 404 THEN "Post not found"
                            ELSE IF code = 503 THEN "Database unreachable"
                            ELSE FailureMessage(op),
                    err |-> IF code = 404 THEN "none" ELSE err]]
     /\ pc' = [pc EXCEPT ![q] = "idle"]
     /\ arg' = [arg EXCEPT ![q] = Idle]
     /\ loc' = [loc EXCEPT ![q] = NoLoc]

----------------------------------------------------------------------------
(* likePost *)

LikeStart(q, u, p) ==
  /\ Begin(q, [op |-> "likePost", user |-> u, post |-> p], NoLoc, "like_find")
  /\ UNCHANGED <<store, now, identity>>

(* findUnique({userId_postId}).catch(() => null): a failed lookup reads as   *)
(* "not liked yet"                                                           *)
LikeFind(q) ==
  /\ pc[q] = "like_find"
  /\ \E already \in (IF likes[<<arg[q].user, arg[q].post>>] > 0
                     THEN {TRUE, FALSE} ELSE {FALSE}) :
       IF already
       THEN Respond(q, 200, "Already liked")
       ELSE Goto(q, "like_create") /\ UNCHANGED <<arg, loc, resp>>
  /\ UNCHANGED <<store, now, identity>>

(* first statement of the batch transaction: postLike.create *)
LikeTxCreate(q) ==
  /\ pc[q] = "like_create"
  /\ IF ~PostExists(arg[q].post) THEN Throw(q, "P2025")
     ELSE IF ~LikeUnique(arg[q].user, arg[q].post) THEN Throw(q, "P2002")
     ELSE Goto(q, "like_commit") /\ UNCHANGED <<arg, loc, resp>>
  /\ UNCHANGED <<store, now, identity>>

(* faulty variant: the Like row is written, the counter is not *)
LikeTxWritesNoCounter(u, p) ==
  /\ likes' = [likes EXCEPT ![<<u, p>>] = @ + 1]
  /\ posts' = posts

(* the rows the committed transaction writes: the Like row and the counter *)
LikeTxWrites(u, p) ==
  /\ likes' = [likes EXCEPT ![<<u, p>>] = @ + 1]
  /\ posts' = [posts EXCEPT ![p].likesCount = @ + 1]

(* second statement (blogPost.update, increment) and the commit *)
LikeTxCommit(q) ==
  /\ pc[q] = "like_commit"
  /\ IF ~PostExists(arg[q].post)
     THEN Throw(q, "P2025") /\ UNCHANGED <<posts, likes>>
     ELSE IF ~LikeUnique(arg[q].user, arg[q].post)
     THEN Throw(q, "P2002") /\ UNCHANGED <<posts, likes>>
     ELSE /\ LikeTxWrites(arg[q].user, arg[q].post)
          /\ Goto(q, "like_read")
          /\ UNCHANGED <<arg, loc, resp>>
  /\ UNCHANGED <<tags, postTags, comments, nextPost, nextComment, now, identity>>

(* findUnique of the post for the response; updated.likesCount of a post     *)
(* deleted meanwhile throws and is answered 500                              *)
LikeRead(q) ==
  /\ pc[q] = "like_read"
  /\ IF PostExists(arg[q].post)
     THEN Respond(q, 200, "Like added")
     ELSE Throw(q, "TypeError")
  /\ UNCHANGED <<store, now, identity>>

----------------------------------------------------------------------------
(* deletePost *)

DeleteStart(q, p) ==
  /\ Begin(q, [op |-> "deletePost", post |-> p], NoLoc, "del_find")
  /\ UNCHANGED <<store, now, identity>>

DeleteFind(q) ==
  /\ pc[q] = "del_find"
  /\ IF PostExists(arg[q].post)
     THEN /\ Goto(q, "del_joins")
          /\ loc' = [loc EXCEPT ![q] =
                       [delJoins |-> {}, delLikes |-> [u \in Users |-> 0],
                        delComments |-> {}]]
          /\ UNCHANGED <<arg, resp>>
     ELSE Respond(q, 404, "Post not found")
  /\ UNCHANGED <<store, now, identity>>

(* faulty variant: the comments are deleted next, the likes are left out *)
DeleteJoinsThenComments(q) ==
  /\ pc[q] = "del_joins"
  /\ loc' = [loc EXCEPT ![q].delJoins = JoinRows(arg[q].post)]
  /\ Goto(q, "del_comments")
  /\ UNCHANGED <<store, now, identity, arg, resp>>

(* postTag.deleteMany({postId}) *)
DeleteJoins(q) ==
  /\ pc[q] = "del_joins"
  /\ loc' = [loc EXCEPT ![q].delJoins = JoinRows(arg[q].post)]
  /\ Goto(q, "del_likes")
  /\ UNCHANGED <<store, now, identity, arg, resp>>

(* postLike.deleteMany({postId}) *)
DeleteLikes(q) ==
  /\ pc[q] = "del_likes"
  /\ loc' = [loc EXCEPT ![q].delLikes = LikeRowsOf(arg[q].post)]
  /\ Goto(q, "del_comments")
  /\ UNCHANGED <<store, now, identity, arg, resp>>

(* comment.deleteMany({postId}) *)
DeleteComments(q) ==
  /\ pc[q] = "del_comments"
  /\ loc' = [loc EXCEPT ![q].delComments = CommentsOf(arg[q].post)]
  /\ Goto(q, "del_commit")
  /\ UNCHANGED <<store, now, identity, arg, resp>>

(* faulty variant: the deletion leaves the Like rows of the post *)
DeleteTxWritesKeepLikes(p, delJoins, delLikes, delComments) ==
  /\ postTags' = postTags \ delJoins
  /\ likes' = likes
  /\ comments' = OrphanChildren(comments, delComments)
  /\ posts' = [i \in DOMAIN posts \ {p} |-> posts[i]]

(* the rows the committed deletion removes *)
DeleteTxWrites(p, delJoins, delLikes, delComments) ==
  /\ postTags' = postTags \ delJoins
  /\ likes' = [k \in DOMAIN likes |->
                 IF k[2] = p THEN likes[k] - delLikes[k[1]] ELSE likes[k]]
  /\ comments' = OrphanChildren(comments, delComments)
  /\ posts' = [i \in DOMAIN posts \ {p} |-> posts[i]]

(* blogPost.delete({id}) and the commit; P2025 (no such row) is answered 404 *)
DeleteCommit(q) ==
  /\ pc[q] = "del_commit"
  /\ LET p == arg[q].post
         l == loc[q]
     IN IF ~PostExists(p)
        THEN Throw(q, "P2025") /\ UNCHANGED <<posts, postTags, likes, comments>>
        ELSE IF NoDependents(p, l.delJoins, l.delLikes, l.delComments)
        THEN /\ DeleteTxWrites(p, l.delJoins \cap postTags, l.delLikes,
                               l.delComments \cap DOMAIN comments)
             /\ Respond(q, 200, "Deleted")
        ELSE /\ Throw(q, "P2003")
             /\ UNCHANGED <<posts, postTags, likes, comments>>
  /\ UNCHANGED <<tags, nextPost, nextComment, now, identity>>

----------------------------------------------------------------------------
(* slugify(title, {lower: true, strict: true}) *)

IsSpace(c) == c = " "
IsAlnum(c) == c \in {"a", "b", "A", "B", "0", "1", "2"}
Lower(c) == CASE c = "A" -> "a" [] c = "B" -> "b" [] OTHER -> c

(* strict: every character that is neither alphanumeric nor white space goes *)
StripStrict(s) == SelectSeq(s, LAMBDA c : IsAlnum(c) \/ IsSpace(c))

RECURSIVE TrimLeft(_)
TrimLeft(s) == IF s # <<>> /\ IsSpace(Head(s)) THEN TrimLeft(Tail(s)) ELSE s

RECURSIVE TrimRight(_)
TrimRight(s) ==
  IF s # <<>> /\ IsSpace(s[Len(s)]) THEN TrimRight(SubSeq(s, 1, Len(s) - 1)) ELSE s

(* every run of white space becomes one "-" *)
RECURSIVE Hyphenate(_)
Hyphenate(s) ==
  IF s = <<>> THEN <<>>
  ELSE IF IsSpace(Head(s))
       THEN <<"-">> \o Hyphenate(TrimLeft(s))
       ELSE <<Head(s)>> \o Hyphenate(Tail(s))

Slugify(title) ==
  LET h == Hyphenate(TrimRight(TrimLeft(StripStrict(title))))
  IN [i \in 1 .. Len(h) |-> Lower(h[i])]

(* `${baseSlug}-${Date.now().toString(36)}-${suffixCounter}` *)
SuffixedSlug(base, time, n) == base \o <<"-", ToString(time), "-", ToString(n)>>

(* normalizeTags of an array: String(t).trim(), empty names dropped *)
NormalizeTags(val) == SelectSeq(val, LAMBDA t : t # "")

----------------------------------------------------------------------------
(* More store constraints *)

(* faulty variant: no unique index on slug *)
SlugUniqueAbsent(slug, self) == TRUE

(* @unique on BlogPost.slug: no other row holds the slug *)
SlugUnique(slug, self) ==
  \A i \in DOMAIN posts : i # self => posts[i].slug # slug

(* @@unique([postId, tagId]) on PostTag *)
JoinUnique(rows, names) == \A r \in rows : r.tag \notin names

NoRepeat(s) == \A i, j \in 1 .. Len(s) : i # j => s[i] # s[j]

(* ids of the join rows `kept` and of the rows in the staged deleteMany of a *)
(* request other than `self`                                                 *)
UsedJoinIds(kept, self) ==
  {r.id : r \in kept} \cup
  UNION {IF "delJoins" \in DOMAIN loc[q] THEN {r.id : r \in loc[q].delJoins}
         ELSE {} : q \in Procs \ {self}}

RECURSIVE NthFree(_, _, _)
NthFree(used, from, k) ==
  IF from \in used THEN NthFree(used, from + 1, k)
  ELSE IF k = 1 THEN from ELSE NthFree(used, from + 1, k - 1)

(* one new join row per list entry, each with an id no row has *)
NewJoinRows(kept, self, p, names) ==
  {[id |-> NthFree(UsedJoinIds(kept, self), 1, i), post |-> p, tag |-> names[i]] :
     i \in 1 .. Len(names)}

(* tag rows after resolve-or-create of the names: a missing name gets a row *)
WithTags(names) ==
  [t \in DOMAIN tags |-> IF t \in names /\ tags[t] = 0 THEN 1 ELSE tags[t]]

----------------------------------------------------------------------------
(* createPost *)

CreateStart(q, title, hasContent, tagList, draft) ==
  /\ pc[q] = "idle"
  /\ nextPost + InFlight("createPost") < MaxPosts
  /\ IF title = <<>> \/ ~hasContent
     THEN Respond(q, 400, "Missing fields")
     ELSE Begin(q, [op |-> "createPost", title |-> title, isDraft |-> draft,
                    tags |-> NormalizeTags(tagList)],
                [slug |-> Slugify(title), suffixCounter |-> 0, seen |-> {}],
                "create_slug")
  /\ UNCHANGED <<store, now, identity>>

(* one turn of the loop: findUnique({slug}); taken slug, next candidate *)
CreateSlugLoop(q) ==
  /\ pc[q] = "create_slug"
  /\ IF \E i \in DOMAIN posts : posts[i].slug = loc[q].slug
     THEN /\ loc' = [loc EXCEPT
                       ![q].suffixCounter = @ + 1,
                       ![q].slug = SuffixedSlug(Slugify(arg[q].title), now,
                                                loc[q].suffixCounter + 1)]
          /\ UNCHANGED pc
     ELSE /\ Goto(q, "create_resolve")
          /\ UNCHANGED loc
  /\ UNCHANGED <<store, now, identity, arg, resp>>

(* the nested create runs as one transaction; connectOrCreate first looks    *)
(* each tag name up                                                          *)
CreateResolve(q) ==
  /\ pc[q] = "create_resolve"
  /\ loc' = [loc EXCEPT ![q].seen = {t \in Range(arg[q].tags) : tags[t] > 0}]
  /\ Goto(q, "create_commit")
  /\ UNCHANGED <<store, now, identity, arg, resp>>

(* what the transaction may commit: the slug is free, no tag it is about to  *)
(* insert was inserted meanwhile, no (post, tag) pair twice                  *)
CreateValid(slug, names, seen) ==
  /\ SlugUnique(slug, 0)
  /\ \A t \in Range(names) \ seen : tags[t] = 0
  /\ NoRepeat(names)

(* the rows the committed create writes *)
CreateTxWrites(q, id, title, slug, draft, names) ==
  /\ posts' = [i \in DOMAIN posts \cup {id} |->
                 IF i = id
                 THEN [title |-> title, slug |-> slug, isDraft |-> draft,
                       views |-> 0, likesCount |-> 0]
                 ELSE posts[i]]
  /\ tags' = WithTags(Range(names))
  /\ postTags' = postTags \cup NewJoinRows(postTags, q, id, names)
  /\ nextPost' = id

(* faulty variant: the post row is inserted by itself; a failing tag or join insert  *)
(* does not take it back                                                     *)
CreateCommitNoRollback(q) ==
  /\ pc[q] = "create_commit"
  /\ IF CreateValid(loc[q].slug, arg[q].tags, loc[q].seen)
     THEN /\ CreateTxWrites(q, nextPost + 1, arg[q].title, loc[q].slug,
                               arg[q].isDraft, arg[q].tags)
          /\ Goto(q, "create_notify")
          /\ UNCHANGED <<arg, loc, resp>>
     ELSE IF SlugUnique(loc[q].slug, 0)
     THEN /\ CreateTxWrites(q, nextPost + 1, arg[q].title, loc[q].slug,
                               arg[q].isDraft, <<>>)
          /\ Throw(q, "P2002")
     ELSE /\ Throw(q, "P2002")
          /\ UNCHANGED <<posts, tags, postTags, nextPost>>
  /\ UNCHANGED <<likes, comments, nextComment, now, identity>>

CreateCommit(q) ==
  /\ pc[q] = "create_commit"
  /\ IF CreateValid(loc[q].slug, arg[q].tags, loc[q].seen)
     THEN /\ CreateTxWrites(q, nextPost + 1, arg[q].title, loc[q].slug,
                               arg[q].isDraft, arg[q].tags)
          /\ Goto(q, "create_notify")
          /\ UNCHANGED <<arg, loc, resp>>
     ELSE /\ Throw(q, "P2002")
          /\ UNCHANGED <<posts, tags, postTags, nextPost>>
  /\ UNCHANGED <<likes, comments, nextComment, now, identity>>

(* a job handed to the scheduler: its name and whom it mails *)
Job(name, to) == [name |-> name, to |-> to]

(* the broadcast job: a failure of the subscriber query or of the submission *)
(* is caught and swallowed                                                   *)
CreateNotify(q) ==
  /\ pc[q] = "create_notify"
  /\ \E notified \in BOOLEAN :
       jobs' = IF notified
               THEN jobs \cup {Job("broadcast-new-post", "members")}
               ELSE jobs
  /\ Respond(q, 201, "Created")
  /\ UNCHANGED <<store, now, users, secret>>

----------------------------------------------------------------------------
(* updatePost *)

(* a request body: the keys it has and their values *)
Payload(hasTitle, title, hasDraft, draft, hasTags, tagList) ==
  [hasTitle |-> hasTitle, title |-> title, hasDraft |-> hasDraft,
   isDraft |-> draft, hasTags |-> hasTags, tags |-> tagList,
   hasViews |-> FALSE, views |-> 0, hasLikes |-> FALSE, likesCount |-> 0]

(* bodies with a title or none, no tags *)
TitlePayloads ==
  {Payload(FALSE, <<>>, TRUE, TRUE, FALSE, <<>>)} \cup
  {Payload(TRUE, t, FALSE, FALSE, FALSE, <<>>) : t \in Titles}

(* bodies with tags, with and without a title *)
TagPayloads ==
  {Payload(FALSE, <<>>, FALSE, FALSE, TRUE, g) : g \in NewTagLists} \cup
  {Payload(TRUE, <<"a">>, TRUE, TRUE, TRUE, g) : g \in NewTagLists}

(* bodies that carry the key views *)
ViewsPayloads ==
  {[Payload(FALSE, <<>>, FALSE, FALSE, FALSE, <<>>)
      EXCEPT !.hasViews = TRUE, !.views = v] : v \in 0 .. MaxViews}

(* bodies that carry the key likesCount *)
LikesPayloads ==
  {[Payload(FALSE, <<>>, FALSE, FALSE, FALSE, <<>>)
      EXCEPT !.hasLikes = TRUE, !.likesCount = n] : n \in 0 .. NumUsers}

(* payload.slug = slugify(payload.title) if payload.title is truthy; then    *)
(* the remaining keys (tags removed) are written to the row                  *)
WithScalars(row, payload) ==
  [row EXCEPT
     !.title = IF payload.hasTitle THEN payload.title ELSE @,
     !.slug = IF payload.hasTitle /\ payload.title # <<>>
              THEN Slugify(payload.title) ELSE @,
     !.isDraft = IF payload.hasDraft THEN payload.isDraft ELSE @,
     !.views = IF payload.hasViews THEN payload.views ELSE @,
     !.likesCount = IF payload.hasLikes THEN payload.likesCount ELSE @]

UpdateStart(q, id, payload) ==
  /\ Begin(q, [op |-> "updatePost", post |-> id, payload |-> payload],
           [delJoins |-> {}, next |-> 1],
           IF payload.hasTags THEN "upd_find" ELSE "upd_plain")
  /\ UNCHANGED <<store, now, identity>>

(* blogPost.update({where: {id}, data: payload}): P2025 when the row is      *)
(* missing, P2002 when another row holds the new slug                        *)
UpdateScalarsWrite(q, nextLabel) ==
  LET id == arg[q].post
      row == WithScalars(posts[id], arg[q].payload)
  IN IF ~PostExists(id)
     THEN Throw(q, "P2025") /\ UNCHANGED posts
     ELSE IF ~SlugUnique(row.slug, id)
     THEN Throw(q, "P2002") /\ UNCHANGED posts
     ELSE /\ posts' = [posts EXCEPT ![id] = row]
          /\ IF nextLabel = "idle"
             THEN Respond(q, 200, "Updated")
             ELSE Goto(q, nextLabel) /\ UNCHANGED <<arg, loc, resp>>

(* normal update (no tags) *)
UpdatePlain(q) ==
  /\ pc[q] = "upd_plain"
  /\ UpdateScalarsWrite(q, "idle")
  /\ UNCHANGED <<tags, postTags, likes, comments, nextPost, nextComment, now, identity>>

(* faulty variant: the tags of the body are upserted before the lookup *)
UpdateFindAfterUpsert(q) ==
  /\ pc[q] = "upd_find"
  /\ tags' = [t \in DOMAIN tags |->
               IF t \in Range(arg[q].payload.tags) /\ tags[t] = 0
               THEN 1 ELSE tags[t]]
  /\ IF PostExists(arg[q].post)
     THEN Goto(q, "upd_scalars") /\ UNCHANGED <<arg, loc, resp>>
     ELSE Respond(q, 404, "Post not found")
  /\ UNCHANGED <<posts, postTags, likes, comments, nextPost, nextComment, now,
                 identity>>

(* ensure post exists: the row read is kept in the local exists *)
UpdateFind(q) ==
  /\ pc[q] = "upd_find"
  /\ IF PostExists(arg[q].post)
     THEN /\ Goto(q, "upd_scalars")
          /\ loc' = [loc EXCEPT ![q] =
                       [delJoins |-> loc[q].delJoins, next |-> loc[q].next,
                        exists |-> posts[arg[q].post]]]
          /\ UNCHANGED <<arg, resp>>
     ELSE Respond(q, 404, "Post not found")
  /\ UNCHANGED <<store, now, identity>>

(* update scalars, in a statement of its own before the transaction *)
UpdateScalars(q) ==
  /\ pc[q] = "upd_scalars"
  /\ UpdateScalarsWrite(q, "upd_delete")
  /\ UNCHANGED <<tags, postTags, likes, comments, nextPost, nextComment, now, identity>>

(* faulty variant: the deleteMany is committed by itself, outside the transaction *)
UpdateTxDeleteAutocommit(q) ==
  /\ pc[q] = "upd_delete"
  /\ postTags' = postTags \ JoinRows(arg[q].post)
  /\ Goto(q, IF arg[q].payload.tags = <<>> THEN "upd_commit" ELSE "upd_tag")
  /\ UNCHANGED <<posts, tags, likes, comments, nextPost, nextComment, now, identity,
                 arg, loc, resp>>

(* tx.postTag.deleteMany({postId: id}): the rows committed now, staged *)
UpdateTxDelete(q) ==
  /\ pc[q] = "upd_delete"
  /\ loc' = [loc EXCEPT ![q].delJoins = JoinRows(arg[q].post)]
  /\ Goto(q, IF arg[q].payload.tags = <<>> THEN "upd_commit" ELSE "upd_tag")
  /\ UNCHANGED <<store, now, identity, arg, resp>>

(* the join rows of the post this transaction does not delete *)
Survivors(q) == JoinRows(arg[q].post) \ loc[q].delJoins

(* one turn of the loop, first await: tx.tag.upsert of the name *)
UpdateTxTag(q) ==
  /\ pc[q] = "upd_tag"
  /\ Goto(q, "upd_join")
  /\ UNCHANGED <<store, now, identity, arg, loc, resp>>

(* one turn of the loop, second await: tx.postTag.create for the tag just    *)
(* resolved; the insert fails when the post is gone or the (post, tag) pair  *)
(* exists                                                                    *)
UpdateTxJoin(q) ==
  /\ pc[q] = "upd_join"
  /\ LET names == arg[q].payload.tags
         i == loc[q].next
     IN IF ~PostExists(arg[q].post)
        THEN \E err \in {"P2025", "P2003"} : Throw(q, err)
        ELSE IF names[i] \in Range(SubSeq(names, 1, i - 1))
                \/ ~JoinUnique(Survivors(q), {names[i]})
        THEN Throw(q, "P2002")
        ELSE /\ loc' = [loc EXCEPT ![q].next = i + 1]
             /\ Goto(q, IF i = Len(names) THEN "upd_commit" ELSE "upd_tag")
             /\ UNCHANGED <<arg, resp>>
  /\ UNCHANGED <<store, now, identity>>

(* faulty variant: the replacement never deletes the old join rows *)
UpdateTxWritesKeepOld(q, p, delJoins, names) ==
  /\ postTags' = postTags \cup NewJoinRows(postTags, q, p, names)
  /\ tags' = WithTags(Range(names))

(* the rows the committed replacement writes *)
UpdateTxWrites(q, p, delJoins, names) ==
  /\ postTags' = (postTags \ delJoins)
                 \cup NewJoinRows(postTags \ delJoins, q, p, names)
  /\ tags' = WithTags(Range(names))

UpdateTxCommit(q) ==
  /\ pc[q] = "upd_commit"
  /\ LET names == arg[q].payload.tags
     IN IF ~PostExists(arg[q].post)
        THEN /\ \E err \in {"P2025", "P2003"} : Throw(q, err)
             /\ UNCHANGED <<postTags, tags>>
        ELSE IF ~JoinUnique(Survivors(q), Range(names))
        THEN /\ Throw(q, "P2002")
             /\ UNCHANGED <<postTags, tags>>
        ELSE /\ UpdateTxWrites(q, arg[q].post, loc[q].delJoins, names)
             /\ Goto(q, "upd_read")
             /\ UNCHANGED <<arg, loc, resp>>
  /\ UNCHANGED <<posts, likes, comments, nextPost, nextComment, now, identity>>

(* findUnique with the tags for the response; mapPostResponse(null) throws *)
UpdateRead(q) ==
  /\ pc[q] = "upd_read"
  /\ IF PostExists(arg[q].post)
     THEN Respond(q, 200, "Updated")
     ELSE Throw(q, "TypeError")
  /\ UNCHANGED <<store, now, identity>>

----------------------------------------------------------------------------
(* Comments *)

(* findFirst({where: {OR: [{id: param}, {slug: param}]}}): the posts found *)
PostsByParam(param) ==
  {i \in DOMAIN posts :
     \/ param.kind = "id" /\ param.id = i
     \/ param.kind = "slug" /\ param.slug = posts[i].slug}

AddCommentStart(q, param, hasContent, parent) ==
  /\ pc[q] = "idle"
  /\ nextComment + InFlight("addComment") < MaxComments
  /\ IF ~hasContent
     THEN Respond(q, 400, "Comment content is required")
     ELSE Begin(q, [op |-> "addComment", param |-> param, parent |-> parent],
                [post |-> 0], "addc_find")
  /\ UNCHANGED <<store, now, identity>>

AddCommentFind(q) ==
  /\ pc[q] = "addc_find"
  /\ IF PostsByParam(arg[q].param) = {}
     THEN Respond(q, 404, "Post not found")
     ELSE \E i \in PostsByParam(arg[q].param) :
            /\ loc' = [loc EXCEPT ![q].post = i]
            /\ Goto(q, "addc_create")
            /\ UNCHANGED <<arg, resp>>
  /\ UNCHANGED <<store, now, identity>>

(* the row comment.create writes: post and author connected, parent          *)
(* connected when parentComment is given                                     *)
NewComment(post, parent, time) ==
  [post |-> post, parent |-> parent, createdAt |-> time]

(* faulty variant: the row is inserted whether or not the post is still there *)
AddCommentCreateUnconnected(q) ==
  /\ pc[q] = "addc_create"
  /\ IF arg[q].parent # NoParent => arg[q].parent \in DOMAIN comments
     THEN /\ comments' =
               [c \in DOMAIN comments \cup {nextComment + 1} |->
                  IF c = nextComment + 1
                  THEN NewComment(loc[q].post, arg[q].parent, now)
                  ELSE comments[c]]
          /\ nextComment' = nextComment + 1
          /\ Respond(q, 201, "Comment added")
     ELSE /\ Throw(q, "P2025")
          /\ UNCHANGED <<comments, nextComment>>
  /\ UNCHANGED <<posts, tags, postTags, likes, nextPost, now, identity>>

(* comment.create: connect fails when the post or the parent is missing *)
AddCommentCreate(q) ==
  /\ pc[q] = "addc_create"
  /\ IF /\ PostExists(loc[q].post)
        /\ arg[q].parent # NoParent => arg[q].parent \in DOMAIN comments
     THEN /\ comments' =
               [c \in DOMAIN comments \cup {nextComment + 1} |->
                  IF c = nextComment + 1
                  THEN NewComment(loc[q].post, arg[q].parent, now)
                  ELSE comments[c]]
          /\ nextComment' = nextComment + 1
          /\ Respond(q, 201, "Comment added")
     ELSE /\ Throw(q, "P2025")
          /\ UNCHANGED <<comments, nextComment>>
  /\ UNCHANGED <<posts, tags, postTags, likes, nextPost, now, identity>>

DeleteCommentStart(q, c) ==
  /\ Begin(q, [op |-> "deleteComment", comment |-> c], [delComments |-> {}],
           "delc_children")
  /\ UNCHANGED <<store, now, identity>>

(* comment.deleteMany({where: {parentId: commentId}}), staged *)
DeleteCommentChildren(q) ==
  /\ pc[q] = "delc_children"
  /\ loc' = [loc EXCEPT ![q].delComments =
               {c \in DOMAIN comments : comments[c].parent = arg[q].comment}]
  /\ Goto(q, "delc_commit")
  /\ UNCHANGED <<store, now, identity, arg, resp>>

(* faulty variant: the deletion also removes the replies to the children *)
DeleteCommentWritesDeep(c, children) ==
  comments' = OrphanChildren(comments,
                children \cup {c}
                  \cup {g \in DOMAIN comments : comments[g].parent \in children})

(* the rows the committed deletion removes: the children and the comment *)
DeleteCommentWrites(c, children) ==
  comments' = OrphanChildren(comments, children \cup {c})

(* comment.delete({where: {id}}) and the commit; a missing row (P2025) rolls *)
(* the transaction back and is answered 500                                  *)
DeleteCommentCommit(q) ==
  /\ pc[q] = "delc_commit"
  /\ IF arg[q].comment \in DOMAIN comments
     THEN /\ DeleteCommentWrites(arg[q].comment,
                                 loc[q].delComments \cap DOMAIN comments)
          /\ Respond(q, 200, "Comment and replies deleted")
     ELSE /\ Throw(q, "P2025")
          /\ UNCHANGED comments
  /\ UNCHANGED <<posts, tags, postTags, likes, nextPost, nextComment, now, identity>>

(* findMany(orderBy: {createdAt: "asc"}): the rows in any order that is      *)
(* ascending in createdAt (rows of one instant come in either order)         *)
RECURSIVE OrderedByCreatedAt(_)
OrderedByCreatedAt(S) ==
  IF S = {} THEN {<<>>}
  ELSE LET first == {c \in S : \A d \in S : comments[c].createdAt <= comments[d].createdAt}
       IN UNION {{<<c>> \o rest : rest \in OrderedByCreatedAt(S \ {c})} : c \in first}

(* faulty variant: only replies to a top-level comment are nested *)
NestOneLevel(acc, c, fetched) ==
  IF comments[c].parent # NoParent
  THEN IF comments[c].parent \in fetched
          /\ comments[comments[c].parent].parent = NoParent
       THEN [acc EXCEPT !.replies[comments[c].parent] = Append(@, c)]
       ELSE acc
  ELSE [acc EXCEPT !.root = Append(@, c)]

(* list.forEach of the nesting loop: a comment with a parentId is pushed to  *)
(* the replies of map[parentId] if that is in the list, and otherwise to     *)
(* nothing; a comment without parentId is pushed to root                     *)
NestOne(acc, c, fetched) ==
  IF comments[c].parent # NoParent
  THEN IF comments[c].parent \in fetched
       THEN [acc EXCEPT !.replies[comments[c].parent] = Append(@, c)]
       ELSE acc
  ELSE [acc EXCEPT !.root = Append(@, c)]

RECURSIVE NestFrom(_, _, _)
NestFrom(acc, list, fetched) ==
  IF list = <<>> THEN acc
  ELSE NestFrom(NestOne(acc, Head(list), fetched), Tail(list), fetched)

(* the forest: root and, for every fetched comment, its replies *)
BuildForest(list) ==
  NestFrom([root |-> <<>>, replies |-> [c \in Range(list) |-> <<>>]],
           list, Range(list))

ListingResponse(q, forest, fetched) ==
  /\ resp' = [resp EXCEPT ![q] =
                [code |-> 200, msg |-> "comments", err |-> "none",
                 root |-> forest.root,
                 replies |-> forest.replies, fetched |-> fetched,
                 parentId |-> [c \in fetched |-> comments[c].parent],
                 createdAt |-> [c \in fetched |-> comments[c].createdAt]]]
  /\ pc' = [pc EXCEPT ![q] = "idle"]
  /\ arg' = [arg EXCEPT ![q] = Idle]
  /\ loc' = [loc EXCEPT ![q] = NoLoc]

GetCommentsByPostStart(q, param) ==
  /\ Begin(q, [op |-> "getCommentsByPost", param |-> param], [post |-> 0],
           "list_find")
  /\ UNCHANGED <<store, now, identity>>

GetCommentsByPostFind(q) ==
  /\ pc[q] = "list_find"
  /\ IF PostsByParam(arg[q].param) = {}
     THEN Respond(q, 404, "Post not found")
     ELSE \E i \in PostsByParam(arg[q].param) :
            /\ loc' = [loc EXCEPT ![q].post = i]
            /\ Goto(q, "list_fetch")
            /\ UNCHANGED <<arg, resp>>
  /\ UNCHANGED <<store, now, identity>>

GetCommentsByPostFetch(q) ==
  /\ pc[q] = "list_fetch"
  /\ \E list \in OrderedByCreatedAt(CommentsOf(loc[q].post)) :
       ListingResponse(q, BuildForest(list), Range(list))
  /\ UNCHANGED <<store, now, identity>>

GetAllComments(q) ==
  /\ pc[q] = "idle"
  /\ \E list \in OrderedByCreatedAt(DOMAIN comments) :
       ListingResponse(q, BuildForest(list), Range(list))
  /\ UNCHANGED <<store, now, identity>>

----------------------------------------------------------------------------
(* incrementView *)

(* the id of a post as the text a route carries; the id of post 1 reads like *)
(* the slug "b" (a post can be given a title that is another post's id)      *)
IdText(i) == IF i = 1 THEN <<"b">> ELSE <<ToString(i)>>

(* the :id of the view route: an id, a slug, both or neither; or nothing *)
ViewParams == {<<>>, <<"a">>, <<"b">>, <<"2">>, <<"c">>}

ById(param) == {i \in DOMAIN posts : IdText(i) = param}
BySlug(param) == {i \in DOMAIN posts : posts[i].slug = param}

TotalViews == SumOver([i \in DOMAIN posts |-> posts[i].views], DOMAIN posts)

ViewStart(q, param) ==
  /\ pc[q] = "idle"
  /\ TotalViews + InFlight("incrementView") < MaxViews
  /\ IF param = <<>>
     THEN Respond(q, 400, "Missing post id or slug in URL")
     ELSE Begin(q, [op |-> "incrementView", param |-> param],
                [post |-> 0, threw |-> FALSE], "view_id")
  /\ UNCHANGED <<store, now, identity>>

(* findUnique({where: {id: param}}) in a try of its own: an error reads as   *)
(* "not found by id"                                                         *)
ViewFindId(q) ==
  /\ pc[q] = "view_id"
  /\ \/ /\ ById(arg[q].param) # {}
        /\ \E i \in ById(arg[q].param) : loc' = [loc EXCEPT ![q].post = i]
        /\ Goto(q, "view_update")
     \/ /\ ById(arg[q].param) = {}
        /\ Goto(q, "view_slug")
        /\ UNCHANGED loc
     \/ /\ loc' = [loc EXCEPT ![q].threw = TRUE]
        /\ Goto(q, "view_slug")
  /\ UNCHANGED <<store, now, identity, arg, resp>>

(* findUnique({where: {slug: param}}) *)
ViewFindSlug(q) ==
  /\ pc[q] = "view_slug"
  /\ IF BySlug(arg[q].param) = {}
     THEN Respond(q, 404, "Post not found for id or slug")
     ELSE \E i \in BySlug(arg[q].param) :
            /\ loc' = [loc EXCEPT ![q].post = i]
            /\ Goto(q, "view_update")
            /\ UNCHANGED <<arg, resp>>
  /\ UNCHANGED <<store, now, identity>>

(* blogPost.update({data: {views: {increment: 1}}}) *)
ViewWrite(q, p) ==
  posts' = [posts EXCEPT ![p].views = @ + 1]

(* the update; a missing row (P2025) goes to the handler's own catch: 500 *)
ViewUpdate(q) ==
  /\ pc[q] = "view_update"
  /\ IF PostExists(loc[q].post)
     THEN /\ ViewWrite(q, loc[q].post)
          /\ Respond(q, 200, "View incremented")
     ELSE /\ Throw(q, "P2025")
          /\ UNCHANGED posts
  /\ UNCHANGED <<tags, postTags, likes, comments, nextPost, nextComment, now,
                 identity>>

----------------------------------------------------------------------------
(* getAllPosts and getPostsByTag *)

(* a query parameter that holds a number, or is absent *)
NoNumber == [has |-> FALSE, value |-> 0]
Number(n) == [has |-> TRUE, value |-> n]

(* parseInt(req.query.page || "1", 10), parseInt(req.query.limit || "5", 10) *)
PageOf(page) == IF page.has THEN page.value ELSE 1
LimitOf(limit) == IF limit.has THEN limit.value ELSE 5

(* req.query.status || "published", and the where clause it selects *)
StatusOf(status) == IF status = "" THEN "published" ELSE status

Matching(status) ==
  {i \in DOMAIN posts :
     CASE StatusOf(status) = "draft" -> posts[i].isDraft
       [] StatusOf(status) = "published" -> ~posts[i].isDraft
       [] OTHER -> TRUE}

(* the sequences that list every element of S once *)
RECURSIVE Orderings(_)
Orderings(S) ==
  IF S = {} THEN {<<>>}
  ELSE UNION {{<<x>> \o rest : rest \in Orderings(S \ {x})} : x \in S}

(* skip and take of findMany *)
Slice(list, skip, take) ==
  IF skip >= Len(list) THEN <<>>
  ELSE SubSeq(list, skip + 1,
              IF skip + take < Len(list) THEN skip + take ELSE Len(list))

(* faulty variant: the quotient is rounded down *)
CeilDivFloor(count, limit) == count \div limit

(* Math.ceil(totalCount / limit), for limit > 0 *)
CeilDiv(count, limit) ==
  IF count % limit = 0 THEN count \div limit ELSE count \div limit + 1

(* the five queries of the Promise.all *)
Queries == {"findMany", "count", "countAll", "countPublished", "countDraft"}

GetAllPostsStart(q, status, page, limit) ==
  /\ Begin(q, [op |-> "getAllPosts", status |-> status, page |-> PageOf(page),
                limit |-> LimitOf(limit)],
           [pending |-> Queries, postsRaw |-> <<>>, totalCount |-> 0,
            all |-> 0, published |-> 0, draft |-> 0],
           "posts_query")
  /\ UNCHANGED <<store, now, identity>>

(* one of the five queries is answered; the order of the rows (updatedAt     *)
(* descending) is not modelled, they come in some order                      *)
GetAllPostsQuery(q) ==
  /\ pc[q] = "posts_query"
  /\ \E k \in loc[q].pending :
       LET l == [loc[q] EXCEPT !.pending = @ \ {k}]
       IN CASE k = "findMany" ->
                 \E order \in Orderings(Matching(arg[q].status)) :
                   loc' = [loc EXCEPT ![q] =
                             [l EXCEPT !.postsRaw =
                                Slice(order, (arg[q].page - 1) * arg[q].limit,
                                      arg[q].limit)]]
            [] k = "count" ->
                 loc' = [loc EXCEPT ![q] =
                           [l EXCEPT !.totalCount =
                              Cardinality(Matching(arg[q].status))]]
            [] k = "countAll" ->
                 loc' = [loc EXCEPT ![q] =
                           [l EXCEPT !.all = Cardinality(DOMAIN posts)]]
            [] k = "countPublished" ->
                 loc' = [loc EXCEPT ![q] =
                           [l EXCEPT !.published =
                              Cardinality(Matching("published"))]]
            [] OTHER ->
                 loc' = [loc EXCEPT ![q] =
                           [l EXCEPT !.draft = Cardinality(Matching("draft"))]]
  /\ IF Cardinality(loc[q].pending) = 1
     THEN Goto(q, "posts_respond")
     ELSE UNCHANGED pc
  /\ UNCHANGED <<store, now, identity, arg, resp>>

GetAllPostsRespond(q) ==
  /\ pc[q] = "posts_respond"
  /\ resp' = [resp EXCEPT ![q] =
                [code |-> 200, msg |-> "posts", err |-> "none",
                 posts |-> loc[q].postsRaw, page |-> arg[q].page,
                 totalPages |-> CeilDiv(loc[q].totalCount, arg[q].limit),
                 totalCount |-> loc[q].totalCount,
                 counts |-> [all |-> loc[q].all, published |-> loc[q].published,
                             draft |-> loc[q].draft]]]
  /\ pc' = [pc EXCEPT ![q] = "idle"]
  /\ arg' = [arg EXCEPT ![q] = Idle]
  /\ loc' = [loc EXCEPT ![q] = NoLoc]
  /\ UNCHANGED <<store, now, identity>>

GetPostsByTagStart(q, tagName) ==
  /\ Begin(q, [op |-> "getPostsByTag", tag |-> tagName], NoLoc, "bytag_find")
  /\ UNCHANGED <<store, now, identity>>

PostList(q, list) ==
  /\ resp' = [resp EXCEPT ![q] =
                [code |-> 200, msg |-> "posts by tag", err |-> "none",
                 posts |-> list]]
  /\ pc' = [pc EXCEPT ![q] = "idle"]
  /\ arg' = [arg EXCEPT ![q] = Idle]
  /\ loc' = [loc EXCEPT ![q] = NoLoc]

(* tag.findUnique({where: {name}}): no such tag, res.json([]) *)
GetPostsByTagFind(q) ==
  /\ pc[q] = "bytag_find"
  /\ IF arg[q].tag \in DOMAIN tags /\ tags[arg[q].tag] > 0
     THEN Goto(q, "bytag_fetch") /\ UNCHANGED <<arg, loc, resp>>
     ELSE PostList(q, <<>>)
  /\ UNCHANGED <<store, now, identity>>

(* acc.find((x) => x.id === p.id) || acc.push(p) *)
RECURSIVE Dedupe(_)
Dedupe(list) ==
  IF list = <<>> THEN <<>>
  ELSE LET front == Dedupe(SubSeq(list, 1, Len(list) - 1))
           last == list[Len(list)]
       IN IF last \in Range(front) THEN front ELSE Append(front, last)

(* postTag.findMany({where: {tagId}, include: {post}}), then the posts of    *)
(* the join rows, each once                                                  *)
GetPostsByTagFetch(q) ==
  /\ pc[q] = "bytag_fetch"
  /\ \E order \in Orderings({r \in postTags : r.tag = arg[q].tag}) :
       PostList(q, Dedupe([i \in 1 .. Len(order) |-> order[i].post]))
  /\ UNCHANGED <<store, now, identity>>

----------------------------------------------------------------------------
(* registerUser and loginUser *)

Emails == {"e", "f"}
Passwords == {"p", "r"}

(* an optional string: a body field or an environment variable *)
Absent == [has |-> FALSE, value |-> ""]
Given(v) == [has |-> TRUE, value |-> v]

(* adminAccessToken of a request: absent, empty, the secret, another string *)
Tokens == {Absent, Given(""), Given("s"), Given("w")}

(* ADMIN_ACCESS_TOKEN of the server: not set, set to "", set to "s" *)
Secrets == {Absent, Given(""), Given("s")}

Truthy(t) == t.has /\ t.value # ""

(* bcrypt.hash(password, 10) and bcrypt.compare(password, hash) *)
Hash(password) == <<"bcrypt", password>>
Compare(password, hashed) == hashed = Hash(password)

UsersByEmail(email) == {u \in users : u.email = email}

(* @unique on User.email *)
EmailUnique(email) == UsersByEmail(email) = {}

(* faulty variant: the token is compared without being required *)
RoleForAnyEqual(token) == IF token = secret THEN "admin" ELSE "member"

(* role = "admin" if adminAccessToken && adminAccessToken === the secret *)
RoleFor(token) ==
  IF Truthy(token) /\ secret.has /\ token.value = secret.value
  THEN "admin" ELSE "member"

RegisterStart(q, hasName, email, password, token) ==
  /\ pc[q] = "idle"
  /\ IF ~hasName \/ email = "" \/ password = ""
     THEN Respond(q, 400, "Missing required fields")
     ELSE Begin(q, [op |-> "registerUser", email |-> email,
                    password |-> password, token |-> token],
                NoLoc, "reg_find")
  /\ UNCHANGED <<store, now, identity>>

(* findUnique({where: {email}}) *)
RegisterFind(q) ==
  /\ pc[q] = "reg_find"
  /\ IF UsersByEmail(arg[q].email) # {}
     THEN Respond(q, 400, "User already exists")
     ELSE Goto(q, "reg_create") /\ UNCHANGED <<arg, loc, resp>>
  /\ UNCHANGED <<store, now, identity>>

(* the row user.create writes *)
NewUser(email, password, token) ==
  [email |-> email, n |-> Cardinality(UsersByEmail(email)) + 1,
   password |-> Hash(password), role |-> RoleFor(token)]

(* bcrypt.hash, then user.create: a second row for the email fails (P2002) *)
RegisterCreate(q) ==
  /\ pc[q] = "reg_create"
  /\ IF EmailUnique(arg[q].email)
     THEN /\ users' = users \cup
                        {NewUser(arg[q].email, arg[q].password, arg[q].token)}
          /\ Goto(q, "reg_welcome")
          /\ UNCHANGED <<arg, loc, resp>>
     ELSE /\ Throw(q, "P2002")
          /\ UNCHANGED users
  /\ UNCHANGED <<store, now, jobs, secret>>

(* await agenda.now / schedule / every, inside the handler's try block *)
SubmitJob(q, from, name, to) ==
  /\ pc[q] = from
  /\ jobs' = jobs \cup {Job(name, arg[q].email)}
  /\ IF to = "idle"
     THEN /\ resp' = [resp EXCEPT ![q] =
                        [code |-> IF arg[q].op = "registerUser" THEN 201 ELSE 200,
                         msg |-> "token issued", err |-> "none",
                         token |-> arg[q].email]]
          /\ pc' = [pc EXCEPT ![q] = "idle"]
          /\ arg' = [arg EXCEPT ![q] = Idle]
          /\ loc' = [loc EXCEPT ![q] = NoLoc]
     ELSE Goto(q, to) /\ UNCHANGED <<arg, loc, resp>>
  /\ UNCHANGED <<store, now, users, secret>>

RegisterWelcome(q) == SubmitJob(q, "reg_welcome", "send-welcome-email", "reg_nudge")
RegisterNudge(q) == SubmitJob(q, "reg_nudge", "send-nudge-email", "reg_monthly")
RegisterMonthly(q) == SubmitJob(q, "reg_monthly", "send-monthly-reminder", "idle")

LoginStart(q, email, password) ==
  /\ pc[q] = "idle"
  /\ IF email = "" \/ password = ""
     THEN Respond(q, 400, "Missing credentials")
     ELSE Begin(q, [op |-> "loginUser", email |-> email, password |-> password],
                NoLoc, "login_find")
  /\ UNCHANGED <<store, now, identity>>

(* faulty variant: an unknown email is answered differently *)
LoginFindLeaky(q) ==
  /\ pc[q] = "login_find"
  /\ IF UsersByEmail(arg[q].email) = {}
     THEN Respond(q, 404, "User not found")
     ELSE \E user \in UsersByEmail(arg[q].email) :
            IF Compare(arg[q].password, user.password)
            THEN Goto(q, "login_job") /\ UNCHANGED <<arg, loc, resp>>
            ELSE Respond(q, 401, "Invalid email or password")
  /\ UNCHANGED <<store, now, identity>>

(* findUnique({where: {email}}), then bcrypt.compare *)
LoginFind(q) ==
  /\ pc[q] = "login_find"
  /\ IF UsersByEmail(arg[q].email) = {}
     THEN Respond(q, 401, "Invalid email or password")
     ELSE \E user \in UsersByEmail(arg[q].email) :
            IF Compare(arg[q].password, user.password)
            THEN Goto(q, "login_job") /\ UNCHANGED <<arg, loc, resp>>
            ELSE Respond(q, 401, "Invalid email or password")
  /\ UNCHANGED <<store, now, identity>>

LoginJob(q) == SubmitJob(q, "login_job", "send-login-email", "idle")

(* bodies of updateProfile: the keys password and role, present or not *)
ProfilePayloads ==
  [hasPassword : BOOLEAN, password : {"", "r"},
   hasRole : BOOLEAN, role : {"admin", "member"}]

(* payload.password is hashed when truthy and dropped otherwise; the other  *)
(* keys of the body are written as they come                                 *)
WithProfile(row, payload) ==
  [row EXCEPT
     !.password = IF payload.hasPassword /\ payload.password # ""
                  THEN Hash(payload.password) ELSE @,
     !.role = IF payload.hasRole THEN payload.role ELSE @]

UpdateProfileStart(q, email, payload) ==
  /\ Begin(q, [op |-> "updateProfile", email |-> email, payload |-> payload],
           NoLoc, "profile_update")
  /\ UNCHANGED <<store, now, identity>>

(* user.update({where: {id: userId}, data: payload}): P2025 when the user is *)
(* gone                                                                      *)
UpdateProfileWrite(q) ==
  /\ pc[q] = "profile_update"
  /\ IF UsersByEmail(arg[q].email) = {}
     THEN Throw(q, "P2025") /\ UNCHANGED users
     ELSE /\ users' = {IF u.email = arg[q].email
                       THEN WithProfile(u, arg[q].payload) ELSE u : u \in users}
          /\ Respond(q, 200, "Profile updated")
  /\ UNCHANGED <<store, now, jobs, secret>>

(* positions at which the handler awaits the scheduler *)
Submitting == {"reg_welcome", "reg_nudge", "reg_monthly", "login_job"}

(* a job submission is rejected: the await throws into the handler's catch *)
JobFault(q) ==
  /\ pc[q] \in Submitting
  /\ Throw(q, "agenda")
  /\ UNCHANGED <<store, now, identity>>

----------------------------------------------------------------------------
(* transientRetry(fn, attempts, initialDelayMs) *)

(* what a call of fn may do: return, or throw one of these errors *)
Outcomes == {"ok", "network", "timeout", "status429", "quotaText"}

(* parsed.statusCode === 429 || /quota|RESOURCE_EXHAUSTED/i.test(message) *)
IsQuota(err) == err \in {"status429", "quotaText"}

(* initialDelayMs, in units of the default 500 ms *)
InitialDelay == 1

RECURSIVE Pow2(_)
Pow2(n) == IF n <= 0 THEN 1 ELSE 2 * Pow2(n - 1)

(* what the caller gets: the value returned or the error thrown, with what   *)
(* the calls of fn did and the delays slept                                  *)
Outcome(code, err, l) ==
  [code |-> code, msg |-> IF code = 200 THEN "returned" ELSE "thrown",
   err |-> err, calls |-> l.calls, slept |-> l.slept]

Finish(q, code, err, l) ==
  /\ resp' = [resp EXCEPT ![q] = Outcome(code, err, l)]
  /\ pc' = [pc EXCEPT ![q] = "idle"]
  /\ arg' = [arg EXCEPT ![q] = Idle]
  /\ loc' = [loc EXCEPT ![q] = NoLoc]

(* attempt = 0, lastErr undefined; the loop is entered when 0 <= attempts *)
RetryStart(q, attempts) ==
  /\ pc[q] = "idle"
  /\ LET l == [attempt |-> 0, lastErr |-> "undefined", calls |-> <<>>,
               slept |-> <<>>]
     IN IF 0 <= attempts
        THEN Begin(q, [op |-> "transientRetry", attempts |-> attempts], l,
                   "retry_call")
        ELSE Finish(q, 500, "undefined", l)
  /\ UNCHANGED <<store, now, identity>>

(* faulty variant: a quota error is retried like any other *)
RetryCallThroughQuota(q) ==
  /\ pc[q] = "retry_call"
  /\ \E o \in Outcomes :
       LET called == [loc[q] EXCEPT !.calls = Append(@, o)]
           failed == [called EXCEPT !.lastErr = o, !.attempt = @ + 1]
       IN IF o = "ok"
          THEN Finish(q, 200, "none", called)
          ELSE IF failed.attempt > arg[q].attempts
          THEN Finish(q, 500, failed.lastErr, failed)
          ELSE /\ loc' = [loc EXCEPT ![q] = failed]
               /\ Goto(q, "retry_sleep")
               /\ UNCHANGED <<arg, resp>>
  /\ UNCHANGED <<store, now, identity>>

(* await fn() and its catch: a quota error is rethrown at once; otherwise    *)
(* attempt++, and past the last attempt the loop is left and lastErr thrown  *)
RetryCall(q) ==
  /\ pc[q] = "retry_call"
  /\ \E o \in Outcomes :
       LET called == [loc[q] EXCEPT !.calls = Append(@, o)]
           caught == [called EXCEPT !.lastErr = o]
           failed == [caught EXCEPT !.attempt = @ + 1]
       IN IF o = "ok"
          THEN Finish(q, 200, "none", called)
          ELSE IF IsQuota(o)
          THEN Finish(q, 500, o, caught)
          ELSE IF failed.attempt > arg[q].attempts
          THEN Finish(q, 500, failed.lastErr, failed)
          ELSE /\ loc' = [loc EXCEPT ![q] = failed]
               /\ Goto(q, "retry_sleep")
               /\ UNCHANGED <<arg, resp>>
  /\ UNCHANGED <<store, now, identity>>

(* the backoff: initialDelayMs * 2^(attempt - 1), then the loop test *)
RetrySleep(q) ==
  /\ pc[q] = "retry_sleep"
  /\ LET l == [loc[q] EXCEPT
                 !.slept = Append(@, InitialDelay * Pow2(loc[q].attempt - 1))]
     IN IF l.attempt <= arg[q].attempts
        THEN /\ loc' = [loc EXCEPT ![q] = l]
             /\ Goto(q, "retry_call")
             /\ UNCHANGED <<arg, resp>>
        ELSE Finish(q, 500, l.lastErr, l)
  /\ UNCHANGED <<store, now, identity>>

----------------------------------------------------------------------------
(* The environment: time passes; a store call fails *)

Tick ==
  /\ now < MaxClock
  /\ now' = now + 1
  /\ UNCHANGED <<store, identity, pc, arg, loc, resp>>

(* positions whose store call, when it throws, reaches the handler's catch;  *)
(* a transaction in progress is rolled back: its staged writes are dropped   *)
Throwing ==
  {"like_create", "like_commit", "like_read",
   "create_slug", "create_resolve", "create_commit",
   "upd_plain", "upd_find", "upd_scalars", "upd_delete", "upd_tag",
   "upd_join", "upd_commit", "upd_read",
   "del_find", "del_joins", "del_likes", "del_comments", "del_commit",
   "addc_find", "addc_create", "delc_children", "delc_commit",
   "list_find", "list_fetch", "reg_find", "reg_create", "login_find",
   "view_slug", "view_update", "posts_query", "bytag_find", "bytag_fetch",
   "profile_update"}

(* the store is unreachable (P1001) or fails in some other way *)
StoreFault(q) ==
  /\ pc[q] \in Throwing
  /\ \E err \in {"P1001", "other"} : Throw(q, err)
  /\ UNCHANGED <<store, now, identity>>

----------------------------------------------------------------------------
(* Initial states *)

(* no user, no job; the admin secret is configured *)
NoIdentity ==
  /\ users = {}
  /\ jobs = {}
  /\ secret = [has |-> TRUE, value |-> "s"]

(* no user yet; the admin secret is configured or not *)
InitIdentity ==
  /\ posts = <<>>
  /\ tags = [t \in TagNames |-> 0]
  /\ postTags = {}
  /\ likes = [k \in Users \X PostIds |-> 0]
  /\ comments = <<>>
  /\ nextPost = 0
  /\ nextComment = 0
  /\ now = 0
  /\ users = {}
  /\ jobs = {}
  /\ secret \in Secrets
  /\ pc = [q \in Procs |-> "idle"]
  /\ arg = [q \in Procs |-> Idle]
  /\ loc = [q \in Procs |-> NoLoc]
  /\ resp = [q \in Procs |-> NoResp]

NoRequests ==
  /\ pc = [q \in Procs |-> "idle"]
  /\ arg = [q \in Procs |-> Idle]
  /\ loc = [q \in Procs |-> NoLoc]
  /\ resp = [q \in Procs |-> NoResp]

(* the empty store *)
Init ==
  /\ posts = <<>>
  /\ tags = [t \in TagNames |-> 0]
  /\ postTags = {}
  /\ likes = [k \in Users \X PostIds |-> 0]
  /\ comments = <<>>
  /\ nextPost = 0
  /\ nextComment = 0
  /\ now = 0
  /\ NoIdentity
  /\ NoRequests

(* the store after createPost("a", tags ["x"]) and createPost("b") *)
InitTwoPosts ==
  /\ posts = [i \in {1, 2} |->
                [title |-> IF i = 1 THEN <<"a">> ELSE <<"b">>,
                 slug |-> IF i = 1 THEN <<"a">> ELSE <<"b">>,
                 isDraft |-> FALSE, views |-> 0, likesCount |-> 0]]
  /\ tags = [t \in TagNames |-> IF t = "x" THEN 1 ELSE 0]
  /\ postTags = {[id |-> 1, post |-> 1, tag |-> "x"]}
  /\ likes = [k \in Users \X PostIds |-> 0]
  /\ comments = <<>>
  /\ nextPost = 2
  /\ nextComment = 0
  /\ now = 0
  /\ NoIdentity
  /\ NoRequests

(* a comment table that addComment requests on the two posts leave: each    *)
(* parent is an earlier comment (of either post) or none, and createdAt      *)
(* grows with the id; the comments in `tie` share the instant of the one     *)
(* before                                                                    *)
InitForest ==
  /\ \E n \in 0 .. MaxForest :
       \E parent \in [1 .. n -> 0 .. MaxForest], post \in [1 .. n -> {1, 2}],
          tie \in SUBSET (2 .. n) :
         /\ \A c \in 1 .. n : parent[c] < c
         /\ comments = [c \in 1 .. n |->
                          NewComment(post[c], parent[c],
                                     Cardinality({d \in 1 .. c : d \notin tie}))]
         /\ nextComment = n
  /\ posts = [i \in {1, 2} |->
                [title |-> IF i = 1 THEN <<"a">> ELSE <<"b">>,
                 slug |-> IF i = 1 THEN <<"a">> ELSE <<"b">>,
                 isDraft |-> FALSE, views |-> 0, likesCount |-> 0]]
  /\ tags = [t \in TagNames |-> 0]
  /\ postTags = {}
  /\ likes = [k \in Users \X PostIds |-> 0]
  /\ nextPost = 2
  /\ now = 0
  /\ NoIdentity
  /\ NoRequests

----------------------------------------------------------------------------
(* Next-state relations *)

LikeStepsOf(q, likers) ==
  \/ \E u \in likers, p \in PostIds : LikeStart(q, u, p)
  \/ LikeFind(q)
  \/ LikeTxCreate(q)
  \/ LikeTxCommit(q)
  \/ LikeRead(q)

LikeSteps(q) == LikeStepsOf(q, Users)

DeleteSteps(q) ==
  \/ \E p \in PostIds : DeleteStart(q, p)
  \/ DeleteFind(q)
  \/ DeleteJoins(q)
  \/ DeleteLikes(q)
  \/ DeleteComments(q)
  \/ DeleteCommit(q)

CreateSteps(q, titles, lists) ==
  \/ \E t \in titles, c \in BOOLEAN, g \in lists : CreateStart(q, t, c, g, FALSE)
  \/ CreateSlugLoop(q)
  \/ CreateResolve(q)
  \/ CreateCommit(q)
  \/ CreateNotify(q)

UpdatePlainSteps(q) ==
  \/ \E id \in PostIds, payload \in TitlePayloads : UpdateStart(q, id, payload)
  \/ UpdatePlain(q)

UpdateTagStepsOn(q, ids, payloads) ==
  \/ \E id \in ids, payload \in payloads : UpdateStart(q, id, payload)
  \/ UpdateFind(q)
  \/ UpdateScalars(q)
  \/ UpdateTxDelete(q)
  \/ UpdateTxTag(q)
  \/ UpdateTxJoin(q)
  \/ UpdateTxCommit(q)
  \/ UpdateRead(q)

UpdateTagStepsWith(q, payloads) == UpdateTagStepsOn(q, PostIds, payloads)

UpdateTagSteps(q) == UpdateTagStepsWith(q, TagPayloads)

AddCommentSteps(q) ==
  \/ \E param \in PostParams, c \in BOOLEAN, parent \in CommentIds \cup {NoParent} :
       AddCommentStart(q, param, c, parent)
  \/ AddCommentFind(q)
  \/ AddCommentCreate(q)

DeleteCommentSteps(q) ==
  \/ \E c \in CommentIds : DeleteCommentStart(q, c)
  \/ DeleteCommentChildren(q)
  \/ DeleteCommentCommit(q)

ListingSteps(q) ==
  \/ \E param \in PostParams : GetCommentsByPostStart(q, param)
  \/ GetCommentsByPostFind(q)
  \/ GetCommentsByPostFetch(q)
  \/ GetAllComments(q)

RegisterSteps(q, emails, passwords, tokens) ==
  \/ \E hasName \in BOOLEAN, email \in emails, password \in passwords,
        token \in tokens :
       RegisterStart(q, hasName, email, password, token)
  \/ RegisterFind(q)
  \/ RegisterCreate(q)
  \/ RegisterWelcome(q)
  \/ RegisterNudge(q)
  \/ RegisterMonthly(q)

UpdateProfileSteps(q) ==
  \/ \E email \in Emails, payload \in ProfilePayloads :
       UpdateProfileStart(q, email, payload)
  \/ UpdateProfileWrite(q)

LoginSteps(q, emails, passwords) ==
  \/ \E email \in emails, password \in passwords : LoginStart(q, email, password)
  \/ LoginFind(q)
  \/ LoginJob(q)

UpdateWithSteps(q, payloads) ==
  \/ \E id \in PostIds, payload \in payloads : UpdateStart(q, id, payload)
  \/ UpdatePlain(q)

(* status, page and limit of a listing request *)
Statuses == {"", "draft", "published", "all"}
Pages == {NoNumber, Number(1), Number(2), Number(3)}
Limits == {NoNumber, Number(1), Number(2)}

GetAllPostsStepsWith(q, statuses, pages, limits) ==
  \/ \E status \in statuses, page \in pages, limit \in limits :
       GetAllPostsStart(q, status, page, limit)
  \/ GetAllPostsQuery(q)
  \/ GetAllPostsRespond(q)

GetAllPostsSteps(q) == GetAllPostsStepsWith(q, Statuses, Pages, Limits)

GetPostsByTagSteps(q) ==
  \/ \E tagName \in TagNames \cup {"z"} : GetPostsByTagStart(q, tagName)
  \/ GetPostsByTagFind(q)
  \/ GetPostsByTagFetch(q)

(* bodies that carry the key isDraft *)
DraftPayloads ==
  {Payload(FALSE, <<>>, TRUE, d, FALSE, <<>>) : d \in BOOLEAN}

ViewSteps(q) ==
  \/ \E param \in ViewParams : ViewStart(q, param)
  \/ ViewFindId(q)
  \/ ViewFindSlug(q)
  \/ ViewUpdate(q)

(* Likes: concurrent likePost and deletePost requests on two stored posts *)
NextLike ==
  \E q \in Procs : LikeSteps(q) \/ DeleteSteps(q) \/ StoreFault(q)

SpecLike == InitTwoPosts /\ [][NextLike]_vars

(* Slugs: concurrent createPost and updatePost requests *)
NextSlug ==
  \/ \E q \in Procs :
       CreateSteps(q, Titles, {<<>>}) \/ UpdatePlainSteps(q) \/ StoreFault(q)
  \/ Tick

SpecSlug == Init /\ [][NextSlug]_vars

(* Posts and tags: one request at a time, any store call may fail *)
NextPosts ==
  \E q \in {1} :
    CreateSteps(q, Titles, TagLists) \/ UpdateTagSteps(q) \/ DeleteSteps(q)
      \/ StoreFault(q)

SpecPosts == Init /\ [][NextPosts]_vars

(* Deletion: likes, comments and deletions of two stored posts, one request *)
(* at a time, any store call may fail                                        *)
NextDelete ==
  \E q \in {1} :
    LikeSteps(q) \/ AddCommentSteps(q) \/ DeleteSteps(q) \/ StoreFault(q)

SpecDelete == InitTwoPosts /\ [][NextDelete]_vars

(* Creation: concurrent createPost requests with tags *)
NextCreate ==
  \/ \E q \in Procs :
       CreateSteps(q, {<<"a">>, <<"A", "!">>}, TagLists) \/ StoreFault(q)
  \/ Tick

SpecCreate == Init /\ [][NextCreate]_vars

(* Comments: addComment, deleteComment and listings, one request at a time, *)
(* any store call may fail                                                   *)
NextComments ==
  \/ \E q \in {1} :
       AddCommentSteps(q) \/ DeleteCommentSteps(q) \/ ListingSteps(q)
         \/ StoreFault(q)
  \/ Tick

SpecComments == InitTwoPosts /\ [][NextComments]_vars

(* Listings: getCommentsByPost and getAllComments over a comment table *)
NextForest ==
  \E q \in {1} : ListingSteps(q) \/ StoreFault(q)

SpecForest == InitForest /\ [][NextForest]_vars

(* Registration: concurrent registerUser requests for one email *)
NextRegister ==
  \E q \in Procs :
    \/ RegisterSteps(q, {"e", ""}, {"p", ""}, Tokens)
    \/ StoreFault(q)
    \/ JobFault(q)

SpecRegister == InitIdentity /\ [][NextRegister]_vars

(* Login: registerUser and loginUser requests, known and unknown emails *)
NextLogin ==
  \E q \in Procs :
    \/ RegisterSteps(q, {"e"}, {"p"}, {Absent})
    \/ LoginSteps(q, {"e", "f", ""}, {"p", "r", ""})
    \/ StoreFault(q)
    \/ JobFault(q)

SpecLogin == InitIdentity /\ [][NextLogin]_vars

(* Views: concurrent incrementView and deletePost requests on two posts *)
NextView ==
  \E q \in Procs : ViewSteps(q) \/ DeleteSteps(q) \/ StoreFault(q)

SpecView == InitTwoPosts /\ [][NextView]_vars

(* Counters: views, likes and updates of two posts, one request at a time *)
NextCounters ==
  \E q \in {1} :
    \/ ViewSteps(q)
    \/ LikeStepsOf(q, {1})
    \/ UpdateWithSteps(q, ViewsPayloads)
    \/ UpdateTagStepsWith(q, {Payload(FALSE, <<>>, FALSE, FALSE, TRUE, <<"y">>)})
    \/ StoreFault(q)

SpecCounters == InitTwoPosts /\ [][NextCounters]_vars

(* Listings of posts: drafts come and go, posts are deleted, one request at *)
(* a time                                                                    *)
NextList ==
  \E q \in {1} :
    \/ GetAllPostsSteps(q)
    \/ GetPostsByTagSteps(q)
    \/ UpdateWithSteps(q, DraftPayloads)
    \/ DeleteSteps(q)
    \/ StoreFault(q)

SpecList == InitTwoPosts /\ [][NextList]_vars

(* Jobs: the three operations that submit jobs, one request at a time; the *)
(* scheduler may reject a submission                                         *)
NextJobs ==
  \E q \in {1} :
    \/ RegisterSteps(q, {"e"}, {"p"}, {Absent})
    \/ LoginSteps(q, {"e"}, {"p"})
    \/ CreateSteps(q, {<<"a">>}, {<<>>})
    \/ JobFault(q)

SpecJobs == InitIdentity /\ [][NextJobs]_vars

(* Early answers: requests with missing fields or on missing posts, among   *)
(* requests that write, one request at a time; any store call may fail       *)
NextEarly ==
  \E q \in {1} :
    \/ CreateSteps(q, {<<>>, <<"a">>}, {<<"x">>})
    \/ UpdateWithSteps(q, {Payload(TRUE, <<"b">>, FALSE, FALSE, FALSE, <<>>)})
    \/ UpdateTagStepsWith(q, {Payload(TRUE, <<"b">>, FALSE, FALSE, TRUE, <<"y">>)})
    \/ DeleteSteps(q)
    \/ AddCommentSteps(q)
    \/ StoreFault(q)

SpecEarly == Init /\ [][NextEarly]_vars

(* Unique constraints: concurrent requests that may store the same email,   *)
(* the same slug or the same (post, tag) pair twice                          *)
NextConflict ==
  \E q \in Procs :
    \/ RegisterSteps(q, {"e"}, {"p"}, {Absent})
    \/ CreateSteps(q, {<<"a">>}, {<<>>})
    \/ UpdateWithSteps(q, {Payload(TRUE, <<"a">>, FALSE, FALSE, FALSE, <<>>)})
    \/ UpdateTagStepsWith(q, {Payload(FALSE, <<>>, FALSE, FALSE, TRUE, g) :
                                g \in {<<"y">>, <<"x", "x">>}})

SpecConflict == Init /\ [][NextConflict]_vars

(* titles whose slug is a candidate of the loop for the title "a" *)
SuffixTitles == {<<"a", " ", "0", " ", "1">>, <<"a", " ", "0", " ", "2">>}

(* The slug loop: createPost requests for one title while updatePost gives  *)
(* the stored post the titles the loop is about to try                       *)
NextRetry ==
  \E q \in Procs :
    \/ CreateSteps(q, {<<"a">>}, {<<>>})
    \/ UpdateWithSteps(q, {Payload(TRUE, t, FALSE, FALSE, FALSE, <<>>) :
                             t \in SuffixTitles})

SpecRetry == Init /\ [][NextRetry]_vars

(* Tags: concurrent createPost and updatePost requests that name the same   *)
(* tag; each slot creates posts of a title of its own                        *)
NextTags ==
  \E q \in Procs :
    \/ CreateSteps(q, {IF q = 1 THEN <<"a">> ELSE <<"b">>}, {<<"x">>})
    \/ UpdateTagStepsWith(q, {Payload(FALSE, <<>>, FALSE, FALSE, TRUE, <<"x">>)})

SpecTags == Init /\ [][NextTags]_vars

(* The like counter: likes, views and updates whose body carries            *)
(* likesCount, one request at a time                                         *)
NextLikesCount ==
  \E q \in {1} :
    \/ LikeStepsOf(q, {1})
    \/ ViewSteps(q)
    \/ UpdateWithSteps(q, LikesPayloads)
    \/ UpdateTagStepsWith(q, {Payload(FALSE, <<>>, FALSE, FALSE, TRUE, <<"y">>)})
    \/ StoreFault(q)

SpecLikesCount == InitTwoPosts /\ [][NextLikesCount]_vars

(* Updates with scalar fields and tags on two stored posts, one request at *)
(* a time; the tag list may repeat a name and any store call may fail        *)
NextUpdate ==
  \E q \in {1} :
    \/ UpdateTagStepsWith(q, {Payload(FALSE, <<>>, TRUE, d, TRUE, g) :
                                d \in BOOLEAN, g \in {<<"y">>, <<"x", "x">>}})
    \/ StoreFault(q)

SpecUpdate == InitTwoPosts /\ [][NextUpdate]_vars

(* Statement order: deletePost, deleteComment and the tag replacement on    *)
(* two stored posts with likes and comments, one request at a time          *)
NextOrder ==
  \E q \in {1} :
    \/ DeleteSteps(q)
    \/ LikeStepsOf(q, {1})
    \/ AddCommentSteps(q)
    \/ DeleteCommentSteps(q)
    \/ UpdateTagStepsWith(q, {Payload(FALSE, <<>>, FALSE, FALSE, TRUE, g) :
                                g \in {<<>>, <<"x", "y">>}})
    \/ StoreFault(q)

SpecOrder == InitTwoPosts /\ [][NextOrder]_vars

(* Concurrent tag replacements: updatePost requests with the tag sets {x}   *)
(* and {y} on post 1                                                         *)
NextReplace ==
  \E q \in Procs :
    UpdateTagStepsOn(q, {1}, {Payload(FALSE, <<>>, FALSE, FALSE, TRUE, g) :
                                g \in {<<"x">>, <<"y">>}})

SpecReplace == InitTwoPosts /\ [][NextReplace]_vars

(* a top-level comment with content on post 1 *)
AddCommentOnFirst(q) ==
  \/ AddCommentStart(q, [kind |-> "id", id |-> 1, slug |-> <<>>], TRUE, NoParent)
  \/ AddCommentFind(q)
  \/ AddCommentCreate(q)

(* References: deletePost concurrent with likePost, addComment and the tag  *)
(* replacement on the same post                                              *)
NextReferences ==
  \E q \in Procs :
    \/ DeleteSteps(q)
    \/ LikeStepsOf(q, {1})
    \/ AddCommentOnFirst(q)
    \/ UpdateTagStepsOn(q, {1}, {Payload(FALSE, <<>>, FALSE, FALSE, TRUE, <<"y">>)})

SpecReferences == InitTwoPosts /\ [][NextReferences]_vars

(* Listings while posts change: a getAllPosts request on one slot, while    *)
(* updatePost toggles isDraft and deletePost deletes on the other            *)
NextListRace ==
  \/ \E q \in {1} :
       GetAllPostsStepsWith(q, {"", "all"}, {NoNumber}, {NoNumber})
  \/ \E q \in {2} :
       UpdateWithSteps(q, DraftPayloads) \/ DeleteSteps(q)

SpecListRace == InitTwoPosts /\ [][NextListRace]_vars

(* Profiles: registerUser and updateProfile requests, one at a time *)
NextProfile ==
  \E q \in {1} :
    \/ RegisterSteps(q, Emails, {"p"}, Tokens)
    \/ UpdateProfileSteps(q)
    \/ StoreFault(q)

SpecProfile == InitIdentity /\ [][NextProfile]_vars

(* transientRetry with 0 to MaxAttempts attempts (and a negative number),   *)
(* one run at a time                                                         *)
RetrySteps(q) ==
  \/ \E attempts \in -1 .. MaxAttempts : RetryStart(q, attempts)
  \/ RetryCall(q)
  \/ RetrySleep(q)

NextTransient == \E q \in {1} : RetrySteps(q)

(* a run under way goes on: the event loop runs the continuation of every    *)
(* settled promise and every timer that has expired                          *)
RunsOn == \E q \in {1} : RetryCall(q) \/ RetrySleep(q)

SpecTransient == Init /\ [][NextTransient]_vars /\ WF_vars(RunsOn)

----------------------------------------------------------------------------
(* Properties *)

(* C1: in every reachable state of interleaved likePost (and deletePost)     *)
(* requests, each stored post's likesCount equals the number of Like rows    *)
(* whose postId is that post.                                                *)
LikesCountConsistent ==
  \A p \in DOMAIN posts : posts[p].likesCount = LikeCount(p)

(* two likers of one post have committed while the same user's second,       *)
(* concurrent like of that post is about to commit                           *)
LikesCountWitness ==
  \E q \in Procs :
    /\ pc[q] = "like_commit"
    /\ PostExists(arg[q].post)
    /\ likes[<<arg[q].user, arg[q].post>>] = 1
    /\ posts[arg[q].post].likesCount = 2

(* C2: likePost is idempotent per (user, post): there is never more than one *)
(* Like row for a pair; the step that creates the row increments likesCount  *)
(* by exactly one; once the row exists, no step of a like(u, p) request      *)
(* creates a row or changes the counter of p.                                *)
LikeIdempotent ==
  [][\A u \in Users, p \in PostIds :
       (PostExists(p) /\ p \in DOMAIN posts') =>
         /\ likes'[<<u, p>>] <= 1
         /\ (likes[<<u, p>>] = 0 /\ likes'[<<u, p>>] = 1) =>
              posts'[p].likesCount = posts[p].likesCount + 1
         /\ likes[<<u, p>>] = 1 =>
              /\ likes'[<<u, p>>] = 1
              /\ \A q \in Procs :
                   (arg[q].op = "likePost" /\ arg[q].user = u /\ arg[q].post = p
                      /\ pc'[q] # pc[q]) =>
                     posts'[p].likesCount = posts[p].likesCount]_vars

(* a second like of the only liked pair has been answered "Already liked",   *)
(* and the pair has one row and the post a count of one                      *)
LikeIdempotentWitness ==
  /\ DOMAIN posts = {1, 2}
  /\ \E q \in Procs : resp[q].msg = "Already liked"
  /\ \E k \in DOMAIN likes :
       /\ likes[k] = 1
       /\ posts[k[2]].likesCount = 1
       /\ \A j \in DOMAIN likes : j # k => likes[j] = 0

(* C3: after any interleaving of createPost and updatePost requests, no two *)
(* stored posts have the same slug.                                          *)
SlugsUnique ==
  \A i, j \in DOMAIN posts : i # j => posts[i].slug # posts[j].slug

(* two posts made from titles with the same slug are stored, and an update   *)
(* whose new title slugifies to the other post's slug is at its write        *)
SlugsUniqueWitness ==
  /\ \E i, j \in DOMAIN posts :
       i # j /\ Slugify(posts[i].title) = Slugify(posts[j].title)
  /\ \E q \in Procs :
       /\ pc[q] = "upd_plain"
       /\ PostExists(arg[q].post)
       /\ arg[q].payload.hasTitle
       /\ ~SlugUnique(Slugify(arg[q].payload.title), arg[q].post)

(* C4: when updatePost(id, {tags: newTags}) on an existing post answers 200, *)
(* the tags joined to the post are exactly the names in newTags, with one    *)
(* join row per distinct name and none of the previous rows left.            *)
TagSetReplaced ==
  [][\A q \in Procs :
       (pc[q] = "upd_read" /\ resp'[q].code = 200) =>
         LET p == arg[q].post
             names == Range(arg[q].payload.tags)
             after == {r \in postTags' : r.post = p}
         IN /\ {r.tag : r \in after} = names
            /\ Cardinality(after) = Cardinality(names)]_vars

(* a committed replacement of the tags {x, y} of a post by [x]: one tag is   *)
(* dropped, one is kept, and the request is about to answer                  *)
TagSetReplacedWitness ==
  \E q \in Procs :
    /\ pc[q] = "upd_read"
    /\ PostExists(arg[q].post)
    /\ arg[q].payload.tags = <<"x">>
    /\ {r.tag : r \in loc[q].delJoins} = {"x", "y"}

(* C5: the tag replacement of updatePost is all-or-nothing: every step of an *)
(* updatePost request, a failing or interrupted one included, leaves the     *)
(* committed join rows of the post as they were, except the commit, which    *)
(* leaves exactly the new set.                                               *)
TagReplacementAtomic ==
  [][\A q \in Procs :
       (arg[q].op = "updatePost" /\ PostExists(arg[q].post)) =>
         LET p == arg[q].post
             names == Range(arg[q].payload.tags)
             after == {r \in postTags' : r.post = p}
         IN \/ after = JoinRows(p)
            \/ /\ pc[q] = "upd_commit" /\ pc'[q] = "upd_read"
               /\ {r.tag : r \in after} = names
               /\ Cardinality(after) = Cardinality(names)]_vars

(* inside the transaction the old rows are deleted and the first new row is  *)
(* inserted; the second insert repeats the name and will fail                *)
TagReplacementAtomicWitness ==
  \E q \in Procs :
    /\ pc[q] = "upd_tag"
    /\ PostExists(arg[q].post)
    /\ loc[q].delJoins # {}
    /\ loc[q].next = 2
    /\ arg[q].payload.tags[2] = arg[q].payload.tags[1]
    /\ JoinRows(arg[q].post) = loc[q].delJoins

(* C6: a deletePost(id) that answers "Deleted" leaves no PostTag, Like or    *)
(* Comment row of the post and no post row; a deletePost that fails at any   *)
(* step leaves the post and all of its rows as they were; and no row refers  *)
(* to a deleted post afterwards.                                             *)
CascadeDelete ==
  /\ [](\A p \in PostIds :
          (p <= nextPost /\ ~PostExists(p)) =>
            /\ JoinRows(p) = {}
            /\ \A u \in Users : likes[<<u, p>>] = 0
            /\ CommentsOf(p) = {})
  /\ [][\A q \in Procs :
          (arg[q].op = "deletePost" /\ pc'[q] # pc[q]) =>
            LET p == arg[q].post
            IN IF resp'[q].msg = "Deleted"
               THEN /\ p \notin DOMAIN posts'
                    /\ \A r \in postTags' : r.post # p
                    /\ \A u \in Users : likes'[<<u, p>>] = 0
                    /\ \A c \in DOMAIN comments' : comments'[c].post # p
               ELSE UNCHANGED store]_vars

(* a post with a tag, a like and a comment is at the commit of its deletion  *)
CascadeDeleteWitness ==
  \E q \in Procs :
    /\ pc[q] = "del_commit"
    /\ PostExists(arg[q].post)
    /\ loc[q].delJoins # {}
    /\ \E u \in Users : loc[q].delLikes[u] = 1
    /\ loc[q].delComments # {}

(* C7: createPost with tags is atomic: the step that commits the create      *)
(* persists the post row, a Tag row for every given name and one join row    *)
(* per given tag; every other step of the request, a failure included,       *)
(* persists nothing.                                                         *)
CreateAtomic ==
  [][\A q \in Procs :
       (arg[q].op = "createPost" /\ pc'[q] # pc[q]) =>
         IF pc'[q] = "create_notify"
         THEN LET id == nextPost'
                  names == arg[q].tags
                  joined == {r \in postTags' : r.post = id}
              IN /\ id \notin DOMAIN posts
                 /\ id \in DOMAIN posts'
                 /\ posts'[id].title = arg[q].title
                 /\ \A i \in DOMAIN posts : posts'[i] = posts[i]
                 /\ \A t \in Range(names) : tags'[t] = 1
                 /\ {r.tag : r \in joined} = Range(names)
                 /\ Cardinality(joined) = Len(names)
                 /\ postTags' \ joined = postTags
         ELSE /\ posts' = posts
              /\ tags' = tags
              /\ postTags' = postTags]_vars

(* a create whose list repeats a tag name is at the insert while another     *)
(* request has taken its slug since the uniqueness loop: the insert fails    *)
CreateAtomicWitness ==
  \E q \in Procs :
    /\ pc[q] = "create_commit"
    /\ arg[q].tags # <<>>
    /\ ~NoRepeat(arg[q].tags)
    /\ ~SlugUnique(loc[q].slug, 0)

(* C8: a deleteComment(c) that succeeds removes exactly c and the comments   *)
(* whose parentId is c, in one step; every other comment, replies to c's     *)
(* children included, still exists; when c does not exist, or the request    *)
(* fails, no comment is deleted.                                             *)
DeleteCommentExact ==
  [][\A q \in Procs :
       (arg[q].op = "deleteComment" /\ pc'[q] # pc[q]) =>
         LET c == arg[q].comment
             children == {d \in DOMAIN comments : comments[d].parent = c}
         IN IF resp'[q].code = 200
            THEN /\ c \in DOMAIN comments
                 /\ DOMAIN comments' = DOMAIN comments \ ({c} \cup children)
            ELSE comments' = comments]_vars

(* the deletion of a comment that has a reply which has a reply of its own   *)
(* is at its commit                                                          *)
DeleteCommentExactWitness ==
  \E q \in Procs :
    /\ pc[q] = "delc_commit"
    /\ arg[q].comment \in DOMAIN comments
    /\ \E d \in loc[q].delComments, g \in DOMAIN comments :
         /\ comments[d].parent = arg[q].comment
         /\ comments[g].parent = d

(* number of times comment c occurs in the forest of a listing response *)
CountIn(s, c) == Cardinality({i \in 1 .. Len(s) : s[i] = c})

Occurrences(r, c) ==
  CountIn(r.root, c)
    + SumOver([x \in r.fetched |-> CountIn(r.replies[x], c)], r.fetched)

(* C9: in the forest returned by getCommentsByPost and getAllComments, a     *)
(* comment whose parentId refers to no fetched comment appears as a root,    *)
(* and every fetched comment appears in the forest exactly once.             *)
ForestHasEveryComment ==
  \A q \in Procs :
    resp[q].msg = "comments" =>
      \A c \in resp[q].fetched :
        /\ resp[q].parentId[c] \notin resp[q].fetched => c \in Range(resp[q].root)
        /\ Occurrences(resp[q], c) = 1

(* a list of a listing response is in creation order, each comment once *)
InCreationOrder(r, s) ==
  \A i, j \in 1 .. Len(s) :
    i < j => s[i] # s[j] /\ r.createdAt[s[i]] <= r.createdAt[s[j]]

(* C10: forest reconstruction nests to any depth and keeps creation order:  *)
(* a fetched comment is in the replies of x iff its parentId is x, the roots *)
(* are exactly the comments with no parentId, every list is in creation      *)
(* order, and the comments {1: no parent, 2: parent 1, 3: parent 1,          *)
(* 4: parent 2} give the single root 1 with replies [2, 3] and 4 in the      *)
(* replies of 2.                                                             *)
ForestNested ==
  \A q \in Procs :
    resp[q].msg = "comments" =>
      LET r == resp[q]
      IN /\ \A x \in r.fetched, c \in r.fetched :
              c \in Range(r.replies[x]) <=> r.parentId[c] = x
         /\ \A c \in r.fetched : c \in Range(r.root) <=> r.parentId[c] = NoParent
         /\ Range(r.root) \subseteq r.fetched
         /\ InCreationOrder(r, r.root)
         /\ \A x \in r.fetched : InCreationOrder(r, r.replies[x])
         /\ (/\ r.fetched = {1, 2, 3, 4}
             /\ r.parentId = <<NoParent, 1, 1, 2>>
             /\ r.createdAt[2] < r.createdAt[3])
            => /\ r.root = <<1>>
               /\ r.replies = << <<2, 3>>, <<4>>, <<>>, <<>> >>

(* the listing of the four comments of the example has been answered *)
ForestNestedWitness ==
  \E q \in Procs :
    /\ resp[q].msg = "comments"
    /\ resp[q].fetched = {1, 2, 3, 4}
    /\ resp[q].parentId = <<NoParent, 1, 1, 2>>
    /\ resp[q].root = <<1>>
    /\ resp[q].replies[1] = <<2, 3>>
    /\ resp[q].replies[2] = <<4>>

(* the error kind of a response *)
ErrorKind(r) ==
  CASE r.code = 404 -> "NotFound"
    [] r.code = 401 -> "Unauthorized"
    [] r.code = 503 -> "StoreUnavailable"
    [] r.code = 409 -> "Conflict"
    [] r.code = 400 /\ r.msg = "User already exists" -> "Conflict"
    [] r.code = 400 -> "ValidationError"
    [] r.code = 500 -> "ServerError"
    [] OTHER -> "none"

(* errors of the environment, not of the request *)
Faults == {"P1001", "other", "agenda"}

(* C11: a registerUser whose email is already stored ends, in every          *)
(* interleaving of register calls, with Conflict and creates no user (unless *)
(* the store or the scheduler fails); at most one user per email exists.     *)
RegisterConflict ==
  /\ [](\A email \in Emails : Cardinality(UsersByEmail(email)) <= 1)
  /\ [][\A q \in Procs :
          (/\ arg[q].op = "registerUser"
           /\ pc[q] \in {"reg_find", "reg_create"}
           /\ pc'[q] = "idle"
           /\ UsersByEmail(arg[q].email) # {}
           /\ resp'[q].err \notin Faults) =>
            /\ ErrorKind(resp'[q]) = "Conflict"
            /\ users' = users]_vars

(* C12: registerUser stores role admin if and only if the request carries a  *)
(* non-empty adminAccessToken equal to the configured secret; with a wrong,  *)
(* empty or absent token, and when no secret is configured, it stores role   *)
(* member.                                                                   *)
AdminIffSecret ==
  [][\A q \in Procs :
       (pc[q] = "reg_create" /\ pc'[q] = "reg_welcome") =>
         \A u \in users' \ users :
           /\ users' = users \cup {u}
           /\ u.email = arg[q].email
           /\ u.role \in {"admin", "member"}
           /\ u.role = "admin" <=>
                /\ arg[q].token.has
                /\ arg[q].token.value # ""
                /\ secret.has
                /\ arg[q].token.value = secret.value]_vars

(* a request that carried the configured secret has stored an admin *)
AdminIffSecretWitness ==
  \E q \in Procs :
    /\ pc[q] = "reg_welcome"
    /\ arg[q].token = Given("s")
    /\ secret = Given("s")
    /\ \E u \in users : u.email = arg[q].email /\ u.role = "admin"

(* C13: loginUser fails in the same way for an unknown email and for a known *)
(* email with a wrong password: the response is the same Unauthorized        *)
(* response, with no token, and no job is submitted and no row changes.      *)
LoginUniform ==
  [][\A q \in Procs :
       (/\ pc[q] = "login_find"
        /\ pc'[q] = "idle"
        /\ resp'[q].err \notin Faults) =>
         /\ \/ UsersByEmail(arg[q].email) = {}
            \/ \E u \in UsersByEmail(arg[q].email) :
                 ~Compare(arg[q].password, u.password)
         /\ ErrorKind(resp'[q]) = "Unauthorized"
         /\ resp'[q] = [code |-> 401, msg |-> "Invalid email or password",
                        err |-> "none"]
         /\ UNCHANGED <<store, identity>>]_vars

(* one login with an unknown email and one with a stored email and a wrong   *)
(* password are both at the lookup                                           *)
LoginUniformWitness ==
  \E q1, q2 \in Procs :
    /\ pc[q1] = "login_find" /\ pc[q2] = "login_find"
    /\ UsersByEmail(arg[q1].email) = {}
    /\ UsersByEmail(arg[q2].email) # {}
    /\ \A u \in UsersByEmail(arg[q2].email) : ~Compare(arg[q2].password, u.password)

(* C14: incrementView(param) resolves the post by id first and by slug only *)
(* if no post has that id; the increment of a resolved post grows its views  *)
(* by exactly 1 and no other counter; if none is resolved, or the post is    *)
(* deleted between lookup and increment, the result is NotFound and no views *)
(* counter changes.                                                          *)
ViewIncrement ==
  [][\A q \in Procs :
       (arg[q].op = "incrementView" /\ pc'[q] # pc[q]
          /\ resp'[q].err \notin Faults) =>
         /\ (pc[q] = "view_id" /\ ~loc'[q].threw) =>
              IF ById(arg[q].param) # {}
              THEN pc'[q] = "view_update" /\ loc'[q].post \in ById(arg[q].param)
              ELSE pc'[q] = "view_slug"
         /\ pc[q] = "view_slug" =>
              IF BySlug(arg[q].param) # {}
              THEN pc'[q] = "view_update" /\ loc'[q].post \in BySlug(arg[q].param)
              ELSE ErrorKind(resp'[q]) = "NotFound"
         /\ pc[q] = "view_update" =>
              IF PostExists(loc[q].post)
              THEN /\ resp'[q].code = 200
                   /\ posts' = [posts EXCEPT ![loc[q].post].views = @ + 1]
              ELSE ErrorKind(resp'[q]) = "NotFound"
         /\ pc[q] # "view_update" => posts' = posts]_vars

(* C15: for every stored post, views never decreases along any sequence of  *)
(* incrementView, likePost and updatePost requests (any fields, tags or not). *)
ViewsMonotone ==
  [][\A p \in DOMAIN posts \cap DOMAIN posts' :
       posts'[p].views >= posts[p].views]_vars

(* C16: getAllPosts answers totalPages = ceil(totalCount / pageSize), the    *)
(* least number of pages of pageSize posts that hold the totalCount posts    *)
(* matching the status filter; the page it returns holds at most pageSize    *)
(* posts, all of them matching and none twice; a page beyond totalPages is   *)
(* an empty list with status 200; only a store fault ends it otherwise.      *)
PaginationMath ==
  [][\A q \in Procs :
       (arg[q].op = "getAllPosts" /\ pc[q] # "idle" /\ pc'[q] = "idle") =>
         \/ resp'[q].err \in Faults
         \/ LET r == resp'[q]
                size == arg[q].limit
                total == Cardinality(Matching(arg[q].status))
            IN /\ r.code = 200
               /\ r.totalCount = total
               /\ r.totalPages >= 0
               /\ r.totalPages * size >= total
               /\ (r.totalPages - 1) * size < total
               /\ Len(r.posts) <= size
               /\ Range(r.posts) \subseteq Matching(arg[q].status)
               /\ Cardinality(Range(r.posts)) = Len(r.posts)
               /\ arg[q].page > r.totalPages => r.posts = <<>>]_vars

(* page 3 of pages of one post, two posts matching: an empty page, answered *)
PaginationMathWitness ==
  \E q \in Procs :
    /\ pc[q] = "idle"
    /\ resp[q].code = 200
    /\ resp[q].msg = "posts"
    /\ resp[q].page = 3
    /\ resp[q].totalPages = 2
    /\ resp[q].totalCount = 2
    /\ resp[q].posts = <<>>

(* C17: getPostsByTag(tagName) answers exactly the posts that have a join    *)
(* row to the tag named tagName and are not drafts, each once; an unknown    *)
(* tag gives the empty list.                                                 *)
ByTagPublishedOnly ==
  [][\A q \in Procs :
       (arg[q].op = "getPostsByTag" /\ pc[q] # "idle" /\ pc'[q] = "idle"
        /\ resp'[q].err \notin Faults) =>
         /\ resp'[q].code = 200
         /\ Range(resp'[q].posts) =
              {p \in DOMAIN posts :
                 /\ ~posts[p].isDraft
                 /\ \E r \in postTags : r.post = p /\ r.tag = arg[q].tag}
         /\ Cardinality(Range(resp'[q].posts)) = Len(resp'[q].posts)
         /\ (arg[q].tag \notin DOMAIN tags \/ tags[arg[q].tag] = 0) =>
              resp'[q].posts = <<>>]_vars

(* C18: a failure of job submission never fails the primary operation: a     *)
(* registerUser, loginUser or createPost request that has reached its job    *)
(* submissions ends with its success result, and the step that ends it       *)
(* leaves the stored rows as they are.                                       *)
JobFailureSwallowed ==
  [][\A q \in Procs :
       (pc[q] \in Submitting \cup {"create_notify"} /\ pc'[q] = "idle") =>
         /\ resp'[q].code = (IF arg[q].op = "loginUser" THEN 200 ELSE 201)
         /\ resp'[q].err = "none"
         /\ UNCHANGED <<store, users>>]_vars

(* positions a handler reaches straight from the request, before any write  *)
(* and before its transaction                                                *)
BeforeWrites == {"upd_find", "upd_plain", "del_find", "addc_find"}

(* C19: a createPost, updatePost, deletePost or addComment request that ends *)
(* in ValidationError or NotFound changes no stored row: the step that       *)
(* answers is taken from the request itself or from a position reached       *)
(* straight from it, and neither that step nor the one before it changes a   *)
(* post, tag, join row, like or comment.                                     *)
EarlyAnswerNoEffect ==
  [][\A q \in Procs :
       /\ (pc'[q] \in BeforeWrites /\ pc[q] # pc'[q]) =>
            pc[q] = "idle" /\ UNCHANGED store
       /\ (pc'[q] = "idle" /\ resp'[q] # resp[q]
           /\ ErrorKind(resp'[q]) \in {"ValidationError", "NotFound"}) =>
            /\ pc[q] \in BeforeWrites \cup {"idle"}
            /\ UNCHANGED store]_vars

(* a request on a missing post id has been answered NotFound while a post   *)
(* with a tag is stored and a tag name is still free                         *)
EarlyAnswerNoEffectWitness ==
  \E q \in Procs :
    /\ pc[q] = "idle"
    /\ resp[q] = [code |-> 404, msg |-> "Post not found", err |-> "none"]
    /\ DOMAIN posts # {}
    /\ postTags # {}
    /\ tags["y"] = 0

(* C20: a write that violates a unique constraint (email, slug, (post, tag)  *)
(* pair) is answered with the error kind Conflict, not StoreUnavailable and  *)
(* not a generic server failure, and the step that answers changes no row.   *)
UniqueViolationIsConflict ==
  [][\A q \in Procs :
       (pc[q] # "idle" /\ pc'[q] = "idle" /\ resp'[q].err = "P2002") =>
         /\ ErrorKind(resp'[q]) = "Conflict"
         /\ UNCHANGED <<store, users>>]_vars

(* the number of retries the slug loop is allowed *)
SlugRetryCap == 2

(* C21: the slug loop of createPost is bounded: whatever the stored posts    *)
(* are and whatever other requests do meanwhile, a createPost request makes  *)
(* at most SlugRetryCap retries.                                             *)
SlugLoopBounded ==
  \A q \in Procs :
    arg[q].op = "createPost" => loc[q].suffixCounter <= SlugRetryCap

(* C22: tag resolve-or-create is safe under concurrency: in every state at   *)
(* most one Tag row has a given name and every join row names a tag that has *)
(* exactly one row; and no createPost or updatePost request that names the   *)
(* tag ends with a duplicate-key error unless the slug or a (post, tag) pair *)
(* it writes is taken.                                                       *)
TagResolveSafe ==
  /\ [](\A t \in DOMAIN tags : tags[t] <= 1)
  /\ [](\A r \in postTags : tags[r.tag] = 1)
  /\ [][\A q \in Procs :
         (pc[q] # "idle" /\ pc'[q] = "idle" /\ resp'[q].err = "P2002") =>
           IF arg[q].op = "createPost"
           THEN ~SlugUnique(loc[q].slug, 0) \/ ~NoRepeat(arg[q].tags)
           ELSE arg[q].op = "updatePost" =>
                  \/ pc[q] \in {"upd_plain", "upd_scalars"}
                  \/ ~NoRepeat(arg[q].payload.tags)
                  \/ ~JoinUnique(Survivors(q), Range(arg[q].payload.tags))]_vars

(* C23: likesCount of a post changes only in the step of a likePost          *)
(* transaction that inserts a Like row of that post; updatePost,             *)
(* incrementView and the tag replacement leave it as it is.                  *)
LikesCountOnlyByLike ==
  [][\A p \in DOMAIN posts \cap DOMAIN posts' :
       posts'[p].likesCount # posts[p].likesCount =>
         \E q \in Procs :
           /\ arg[q].op = "likePost"
           /\ arg[q].post = p
           /\ pc[q] = "like_commit"
           /\ pc'[q] = "like_read"
           /\ likes'[<<arg[q].user, p>>] = likes[<<arg[q].user, p>>] + 1]_vars

(* positions inside the tag-replacement transaction of updatePost *)
InUpdateTx == {"upd_delete", "upd_tag", "upd_join", "upd_commit"}

(* C24: updatePost with scalar fields and tags exposes no partial commit:    *)
(* when its transaction aborts, the post row is the row the request read     *)
(* before it wrote anything, and no step of the request but the commit has   *)
(* changed a join row.                                                       *)
NoPartialUpdate ==
  [][\A q \in Procs :
       arg[q].op = "updatePost" /\ arg[q].payload.hasTags /\ pc'[q] # pc[q] =>
         /\ (pc[q] \in InUpdateTx /\ pc'[q] = "idle") =>
              /\ PostExists(arg[q].post) => posts'[arg[q].post] = loc[q].exists
              /\ UNCHANGED postTags
         /\ ~(pc[q] = "upd_commit" /\ pc'[q] = "upd_read") =>
              UNCHANGED postTags]_vars

(* C25: the statements of a multi-entity operation come in a fixed order.    *)
(* deletePost: join rows, likes, comments, then the post row, which goes     *)
(* only with the commit that follows them. deleteComment: the children, then *)
(* the comment. Tag replacement: the old join rows are deleted before the    *)
(* first tag is resolved or the transaction commits, a join row is inserted  *)
(* only for the tag resolved in the statement before it, and the next tag is *)
(* resolved only after that insert.                                          *)
StatementOrder ==
  [][\A q \in Procs :
       pc'[q] # pc[q] =>
         /\ pc'[q] = "del_joins" => pc[q] = "del_find"
         /\ pc'[q] = "del_likes" => pc[q] = "del_joins"
         /\ pc'[q] = "del_comments" => pc[q] = "del_likes"
         /\ pc'[q] = "del_commit" => pc[q] = "del_comments"
         /\ (arg[q].op = "deletePost" /\ posts' # posts) =>
              /\ pc[q] = "del_commit"
              /\ DOMAIN posts' = DOMAIN posts \ {arg[q].post}
         /\ pc'[q] = "delc_commit" => pc[q] = "delc_children"
         /\ (arg[q].op = "deleteComment" /\ comments' # comments) =>
              pc[q] = "delc_commit"
         /\ pc'[q] = "upd_tag" =>
              \/ pc[q] = "upd_delete" /\ loc'[q].next = 1
              \/ pc[q] = "upd_join" /\ loc'[q].next = loc[q].next + 1
         /\ pc'[q] = "upd_join" =>
              pc[q] = "upd_tag" /\ loc'[q].next = loc[q].next
         /\ pc'[q] = "upd_commit" =>
              \/ pc[q] = "upd_delete" /\ arg[q].payload.tags = <<>>
              \/ pc[q] = "upd_join"
                   /\ loc[q].next = Len(arg[q].payload.tags)]_vars

(* a deletePost has reached the delete of the post row, with join rows,     *)
(* likes and comments of the post in its deleteMany statements               *)
StatementOrderWitness ==
  \E q \in Procs :
    /\ pc[q] = "del_commit"
    /\ loc[q].delJoins # {}
    /\ loc[q].delComments # {}
    /\ \E u \in Users : loc[q].delLikes[u] > 0

(* C26: concurrent tag replacements of one post never leave a mix: the join  *)
(* rows of a post change only when a replacement commits, and a commit made  *)
(* while no other replacement of that post is inside its transaction leaves  *)
(* the post joined to exactly the tags of the committing request.            *)
TagSetsNotMixed ==
  [][\A q \in Procs :
       (arg[q].op = "updatePost" /\ pc[q] = "upd_commit" /\ pc'[q] = "upd_read"
        /\ \A o \in Procs \ {q} :
             ~(arg[o].op = "updatePost" /\ arg[o].post = arg[q].post
               /\ pc[o] \in {"upd_tag", "upd_join", "upd_commit"})) =>
         {r.tag : r \in {j \in postTags' : j.post = arg[q].post}}
           = Range(arg[q].payload.tags)]_vars

(* C27: in every committed state each Like row, Comment row and PostTag row  *)
(* refers to a post that exists, whatever the interleaving of deletePost     *)
(* with likePost, addComment and the tag replacement.                        *)
ReferencesHold ==
  /\ \A r \in postTags : PostExists(r.post)
  /\ \A k \in DOMAIN likes : likes[k] > 0 => PostExists(k[2])
  /\ \A c \in DOMAIN comments : PostExists(comments[c].post)

(* an addComment has passed its existence check and is about to insert,     *)
(* while the post has been deleted meanwhile                                 *)
ReferencesHoldWitness ==
  \E q \in Procs :
    /\ arg[q].op = "addComment"
    /\ pc[q] = "addc_create"
    /\ ~PostExists(loc[q].post)

(* C28: every getAllPosts response is consistent in itself: counts.all is    *)
(* counts.published + counts.draft, and totalCount is the count entry of the *)
(* status filter of the request.                                             *)
ListingConsistent ==
  [][\A q \in Procs :
       (pc[q] = "posts_respond" /\ pc'[q] = "idle") =>
         LET r == resp'[q]
             status == StatusOf(arg[q].status)
         IN /\ r.counts.all = r.counts.published + r.counts.draft
            /\ r.totalCount =
                 (CASE status = "draft" -> r.counts.draft
                    [] status = "published" -> r.counts.published
                    [] OTHER -> r.counts.all)]_vars

(* C29: no privilege escalation through the profile: a user is admin only   *)
(* from the registration that carried the token equal to the server secret,  *)
(* no later step makes a user admin, and a stored password is always a hash. *)
NoEscalation ==
  /\ [](\A u \in users : u.password[1] = "bcrypt")
  /\ [][\A u \in users' :
         u.role = "admin" =>
           \/ \E v \in users : v.email = u.email /\ v.n = u.n /\ v.role = "admin"
           \/ \E q \in Procs :
                /\ pc[q] = "reg_create"
                /\ pc'[q] = "reg_welcome"
                /\ u.email = arg[q].email
                /\ UsersByEmail(u.email) = {}
                /\ Truthy(arg[q].token)
                /\ secret.has
                /\ arg[q].token.value = secret.value]_vars

(* C30: transientRetry(fn, attempts) calls fn at most attempts + 1 times and *)
(* always terminates. It returns the value of the first call that succeeds;  *)
(* a quota error is rethrown by the call that met it, with no further call;  *)
(* after attempts + 1 other failures the error of the last call is thrown;   *)
(* it sleeps only between two calls, never after the last failure.           *)
RetryBounded ==
  /\ [](\A q \in Procs :
          arg[q].op = "transientRetry" =>
            /\ Len(loc[q].calls) <= arg[q].attempts + 1
            /\ pc[q] = "retry_call" => Len(loc[q].slept) = Len(loc[q].calls)
            /\ pc[q] = "retry_sleep" =>
                 /\ Len(loc[q].slept) = Len(loc[q].calls) - 1
                 /\ Len(loc[q].calls) <= arg[q].attempts)
  /\ [][\A q \in Procs :
         (arg[q].op = "transientRetry" /\ pc'[q] = "idle") =>
           LET r == resp'[q]
               n == Len(r.calls)
           IN /\ pc[q] = "retry_call"
              /\ n = Len(loc[q].calls) + 1
              /\ n <= arg[q].attempts + 1
              /\ Len(r.slept) = n - 1
              /\ \A i \in 1 .. n - 1 :
                   r.calls[i] # "ok" /\ ~IsQuota(r.calls[i])
              /\ r.code = 200 <=> r.calls[n] = "ok"
              /\ r.code # 200 =>
                   /\ r.err = r.calls[n]
                   /\ IsQuota(r.err) \/ n = arg[q].attempts + 1]_vars
  /\ \A q \in Procs : (pc[q] \in {"retry_call", "retry_sleep"}) ~> (pc[q] = "idle")

(* a run with two attempts whose three calls failed: the last error is      *)
(* thrown after two delays                                                   *)
RetryBoundedWitness ==
  \E q \in Procs :
    /\ pc[q] = "idle"
    /\ resp[q].msg = "thrown"
    /\ resp[q].calls = <<"network", "timeout", "network">>
    /\ resp[q].err = "network"
    /\ resp[q].slept = <<1, 2>>

============================================================================
